---- MODULE Spec2Model ----
(***************************************************************************)
(* A model of OpenSeadragon's tile cache (src/tilecache.js):               *)
(*   - CacheRecord: a payload shared by owner tiles, with its promise,     *)
(*     its queue of deferred conversion jobs and its per-drawer shadow     *)
(*     copies (SimpleCacheRecord);                                         *)
(*   - TileCache: the maps of active and zombie records and the list of    *)
(*     tiles with a live cache.                                            *)
(* JavaScript promises are modelled by what they do: a pending promise is  *)
(* an entry of ops holding the reactions registered on it with then(); a   *)
(* settled promise hands its reactions to the microtask queue micro;       *)
(* setTimeout callbacks are counted in timers.                             *)
(***************************************************************************)
EXTENDS Integers, Sequences, FiniteSets, TLC

\* --------------------------------------------------------------- bounds
\* number of distinct payload objects a behaviour may create
MaxData == 3
\* length of _conversionJobQueue
MaxQueue == 2
\* promises pending at the same time
MaxOps == 2
\* CacheRecord objects alive at the same time
MaxRecs == 3
\* calls the environment makes in one behaviour
MaxCalls == 5
\* calls on the TileCache in one behaviour
MaxCacheCalls == 4

\* ------------------------------------------------------------ constants
\* undefined / null: no payload, no promise value
Absent == 0

Payloads == 1..MaxData
OpIds == 1..MaxOps
RecIds == 1..MaxRecs
\* the record the single-record operations act on
R == 1

NoType == "null"
\* data types known to the convertor; "X" has no conversion edge
Types == {"A", "B", "C", "X"}
NoTile == "none"
TileIds == {"t1", "t2"}
\* cache keys; NoRec: no record under a key
NoKey == "nokey"
Keys == {"k1", "k2"}
NoRec == 0
\* options.maxImageCacheCount of the TileCache
maxImageCacheCount == 1
DrawerIds == {"d1", "d2"}

Min2(n) == IF n > 2 THEN 2 ELSE n

\* ---------------------------------------------- the convertor's graph
\* $.convertor is not part of src/: the conversion graph is the cycle
\* A -> B -> C -> A, each edge one transform step.
NextType(t) == CASE t = "A" -> "B" [] t = "B" -> "C" [] t = "C" -> "A" [] OTHER -> NoType

Convertible == {"A", "B", "C"}

NoPath == <<>>

\* the vertices of the path from one type to another
RECURSIVE PathBetween(_, _)
PathBetween(from, to) ==
    IF from = to THEN <<from>> ELSE <<from>> \o PathBetween(NextType(from), to)

\* getConversionPath(from, to): `to` is a set of accepted types (a single
\* type is a singleton); the shortest path wins; NoPath when there is none.
getConversionPath(from, to) ==
    LET targets == to \cap Convertible
    IN  IF from \notin Convertible \/ targets = {} \/ from \in to THEN NoPath
        ELSE LET best == CHOOSE t \in targets :
                            \A u \in targets : Len(PathBetween(from, t)) <= Len(PathBetween(from, u))
             IN  PathBetween(from, best)

\* ------------------------------------------------------------- drawers
\* drawer.getSupportedDataFormats() and drawer.options.usePrivateCache
DrawerFormats(d) == IF d = "d1" THEN {"C"} ELSE {"A", "B"}
DrawerPrivate(d) == d = "d2"

\* ------------------------------------------------------------ promises
NullP == [k |-> "null", v |-> Absent]
Res(v) == [k |-> "res", v |-> v]
Pend(id) == [k |-> "pend", v |-> id]
Rej == [k |-> "rej", v |-> Absent]

\* ------------------------------------------------------------- records
\* new SimpleCacheRecord(); exists = FALSE: no entry for the drawer
NoShadow == [exists |-> FALSE, data |-> Absent, type |-> NoType, loaded |-> FALSE]
SimpleCacheRecord == [exists |-> TRUE, data |-> Absent, type |-> NoType, loaded |-> FALSE]

\* new CacheRecord(): the constructor calls revive()
NewRecord ==
    [tiles |-> <<>>, tilesNull |-> FALSE, data |-> Absent, type |-> NoType,
     loaded |-> FALSE, promise |-> NullP, destroyed |-> FALSE, queue |-> <<>>,
     tRef |-> NoTile, internal |-> [d \in DrawerIds |-> NoShadow]]

\* a pending promise: "load"/"ovload" deliver payload x to addTile's callback,
\* "chain"/"schain"/"sconv" are conversions at step i of path, "clone" is the
\* getDataAs of cloneCache for tile and key (i = 0: it waits for the record)
FreeOp == [kind |-> "free", r |-> 0, drawer |-> NoTile, x |-> Absent, path |-> <<>>,
           i |-> 0, ty |-> NoType, rx |-> <<>>, detached |-> FALSE,
           tile |-> NoTile, key |-> NoKey]

\* a reaction registered with then(), or a job of the conversion queue
\* (v: the value the promise settled with, filled in when the reaction is due)
Item(k, r, d, ty, to, req) ==
    [k |-> k, r |-> r, d |-> d, ty |-> ty, to |-> to, req |-> req, v |-> Absent]

\* new TileCache(options); _zombiesLoaded keeps the order of insertion, the
\* order in which for..in visits it
TileCache ==
    [tilesLoaded |-> <<>>, zombiesLoaded |-> <<>>, zombiesLoadedCount |-> 0,
     cachesLoaded |-> [k \in Keys |-> NoRec], cachesLoadedCount |-> 0]

\* tile.beingDrawn, tile.loading, tile.processing: which of them is set
BusyKinds == {"no", "beingDrawn", "loading", "processing"}

\* a tile (tile.js is not part of src/): its _caches in order of insertion,
\* its loaded flag, the key of its main cache, whether it is busy, and its
\* lastTouchTime
NewTile ==
    [caches |-> <<>>, loaded |-> FALSE, cacheKey |-> NoKey, busy |-> "no", time |-> 0]

VARIABLES
    recs,        \* the CacheRecord objects
    ops,         \* pending promises: loads and conversion chains in flight
    micro,       \* microtask queue: reactions of settled promises, FIFO
    timers,      \* per record: setTimeout callbacks of _checkAwaitsConvert not yet run
    released,    \* per payload: how often $.convertor.destroy received it (2 = more than once)
    dtype,       \* per payload: the format it really has; NoType = not created yet
    violated,    \* a $.console.assert of the code has failed
    last,        \* the last operation, its result and whether it raised
    calls,       \* calls made by the environment so far
    tc,          \* the TileCache object: its maps, counters and list of tiles
    tileObjs,    \* the tiles: their own key -> record maps and loaded flags
    net,         \* history: tiles attached minus tiles detached since the record was (re)created
    issued       \* history: the transformTo requests of a logged scenario

vars == <<recs, ops, micro, timers, released, dtype, violated, last, calls, tc, tileObjs, net, issued>>

\* The state as one value; the operations below map a world to a world.
\* overflow: the step needs more objects than the bounds allow;
\* threw: the call raised; ret, flag: what the call returned;
\* done: the type a conversion of the record has just settled with;
\* doneFor: the drawer whose getDataForRendering started that conversion.
World ==
    [recs |-> recs, ops |-> ops, micro |-> micro, timers |-> timers,
     released |-> released, dtype |-> dtype, violated |-> violated,
     tc |-> tc, tileObjs |-> tileObjs, net |-> net, issued |-> issued,
     overflow |-> FALSE, threw |-> FALSE, ret |-> Absent, flag |-> FALSE,
     done |-> NoType, doneFor |-> NoTile]

\* ---------------------------------------------------------- allocation
FreePayloads(w) == {p \in Payloads : w.dtype[p] = NoType}
NewPayload(w) ==
    IF FreePayloads(w) = {} THEN Absent
    ELSE CHOOSE p \in FreePayloads(w) : \A q \in FreePayloads(w) : p <= q

FreeOps(w) == {id \in OpIds : w.ops[id].kind = "free"}
NewOp(w) ==
    IF FreeOps(w) = {} THEN 0 ELSE CHOOSE id \in FreeOps(w) : \A q \in FreeOps(w) : id <= q

Overflow(w) == [w EXCEPT !.overflow = TRUE]

\* $.convertor.destroy(data, type): the destructor hook
convertorDestroy(w, p) ==
    IF p \in Payloads THEN [w EXCEPT !.released[p] = Min2(@ + 1)] ELSE w


\* promise.then(reaction) on the record's current promise
Then(w, r, item) ==
    LET p == w.recs[r].promise
    IN  CASE p.k = "res"  -> [w EXCEPT !.micro = Append(@, [item EXCEPT !.v = p.v])]
          [] p.k = "pend" -> [w EXCEPT !.ops[p.v].rx = Append(@, item)]
          [] p.k = "rej"  -> w
          [] OTHER        -> [w EXCEPT !.threw = TRUE]

\* a pending promise settles with value v: every holder sees it resolved and
\* its reactions become microtasks, in the order of their registration
WithValue(items, v) == [n \in 1..Len(items) |-> [items[n] EXCEPT !.v = v]]

Settle(w, id, v) ==
    [w EXCEPT !.micro = @ \o WithValue(w.ops[id].rx, v),
              !.recs = [r \in RecIds |-> IF w.recs[r].promise = Pend(id)
                                         THEN [w.recs[r] EXCEPT !.promise = Res(v)]
                                         ELSE w.recs[r]],
              !.ops[id] = FreeOp]

\* a pending promise rejects: reactions registered with then(onFulfilled) never run
Reject(w, id) ==
    [w EXCEPT !.recs = [r \in RecIds |-> IF w.recs[r].promise = Pend(id)
                                         THEN [w.recs[r] EXCEPT !.promise = Rej]
                                         ELSE w.recs[r]],
              !.ops[id] = FreeOp]

\* ------------------------------------------------- SimpleCacheRecord
\* SimpleCacheRecord.setDataAs on the shadow copy of drawer d
SimpleCacheRecord_setDataAs(w, r, d, data, type) ==
    LET w1 == convertorDestroy(w, w.recs[r].internal[d].data)
    IN  [w1 EXCEPT !.recs[r].internal[d] = [exists |-> TRUE, data |-> data, type |-> type, loaded |-> TRUE]]

\* SimpleCacheRecord.destroy; the caller deletes the entry afterwards
SimpleCacheRecord_destroy(w, r, d) ==
    LET w1 == convertorDestroy(w, w.recs[r].internal[d].data)
    IN  [w1 EXCEPT !.recs[r].internal[d].data = Absent, !.recs[r].internal[d].type = NoType]

\* ------------------------------------------------------- CacheRecord
\* the loop over this[DRAWER_INTERNAL_CACHE] in _overwriteData
RECURSIVE OverwriteShadows(_, _, _, _, _)
OverwriteShadows(w, r, ds, data, type) ==
    IF ds = {} THEN w
    ELSE LET d == CHOOSE x \in ds : TRUE
             w1 == IF w.recs[r].internal[d].exists
                   THEN SimpleCacheRecord_setDataAs(w, r, d, data, type) ELSE w
         IN  OverwriteShadows(w1, r, ds \ {d}, data, type)

\* destroyInternalCache: every shadow copy is destroyed and the map deleted;
\* a conversion still running for a deleted shadow ends in an orphan object
RECURSIVE DestroyShadows(_, _, _)
DestroyShadows(w, r, ds) ==
    IF ds = {} THEN w
    ELSE LET d == CHOOSE x \in ds : TRUE
             w1 == IF w.recs[r].internal[d].exists
                   THEN [SimpleCacheRecord_destroy(w, r, d) EXCEPT !.recs[r].internal[d] = NoShadow]
                   ELSE w
         IN  DestroyShadows(w1, r, ds \ {d})

destroyInternalCache(w, r) ==
    LET w1 == DestroyShadows(w, r, DrawerIds)
    IN  [w1 EXCEPT !.ops = [id \in OpIds |->
            IF w1.ops[id].r = r /\ w1.ops[id].kind \in {"sconv", "schain"}
            THEN [w1.ops[id] EXCEPT !.detached = TRUE] ELSE w1.ops[id]]]

\* _checkAwaitsConvert that never schedules the drain
_checkAwaitsConvert_never(w, r) == w

\* _checkAwaitsConvert: schedules the drain of one queued job with setTimeout
_checkAwaitsConvert(w, r) ==
    IF w.recs[r].queue = <<>> \/ w.recs[r].destroyed THEN w
    ELSE [w EXCEPT !.timers[r] = @ + 1]

\* the body shared by both branches of _overwriteData once the record may be written
OverwriteNow(w, r, data, type) ==
    IF w.recs[r].data = data /\ w.recs[r].type = type THEN w
    ELSE LET w1 == convertorDestroy(w, w.recs[r].data)
             w2 == [w1 EXCEPT !.recs[r].type = type, !.recs[r].data = data,
                              !.recs[r].promise = Res(data)]
         IN  OverwriteShadows(w2, r, DrawerIds, data, type)

\* _overwriteData(data, type); req: a queued caller's future resolves with the result
_overwriteData(w, r, data, type, req) ==
    LET rec == w.recs[r]
    IN  IF rec.destroyed THEN convertorDestroy(w, data)
        ELSE IF rec.loaded THEN OverwriteNow(w, r, data, type)
        ELSE Then(w, r, Item("overwrite", r, data, type, {}, req))

\* setDataAs(data, type)
setDataAs(w, r, data, type) ==
    LET rec == w.recs[r]
    IN  IF rec.queue # <<>>
        THEN IF Len(rec.queue) >= MaxQueue THEN Overflow(w)
             ELSE [w EXCEPT !.recs[r].queue = Append(@, Item("set", r, data, type, {}, TRUE))]
        ELSE _overwriteData(w, r, data, type, FALSE)

\* _convert(from, to); ok: whether the first transform yields a result
_convert(w, r, from, to, ok) ==
    LET path == getConversionPath(from, to)
        originalData == w.recs[r].data
        w1 == [w EXCEPT !.recs[r].loaded = FALSE, !.recs[r].data = Absent,
                        !.recs[r].type = path[Len(path)]]
        id == NewOp(w1)
    IN  IF path = NoPath THEN w
        ELSE IF ~ok THEN [w1 EXCEPT !.threw = TRUE]
        ELSE IF id = 0 THEN Overflow(w)
        ELSE [convertorDestroy(w1, originalData)
                 EXCEPT !.ops[id] = [FreeOp EXCEPT !.kind = "chain", !.r = r,
                                                   !.path = path, !.i = 0],
                        !.recs[r].promise = Pend(id)]

\* the closure of _convert that applies the next transform again when it
\* yields no result instead of throwing
convertNext_retries(w, id, ok) ==
    LET op == w.ops[id]
        r == op.r
        i == op.i + 1
        stepCount == Len(op.path) - 1
        x == NewPayload(w)
        w0 == [w EXCEPT !.dtype[x] = op.path[i + 1]]
    IN  IF x = Absent THEN Overflow(w)
        ELSE IF i >= stepCount
        THEN LET w1 == [w0 EXCEPT !.recs[r].data = x, !.recs[r].loaded = TRUE,
                                  !.done = op.path[Len(op.path)], !.doneFor = op.drawer]
             IN  Settle(_checkAwaitsConvert(w1, r), id, x)
        ELSE IF ~ok THEN [w0 EXCEPT !.recs[r].loaded = FALSE]
        ELSE [convertorDestroy(w0, x) EXCEPT !.ops[id].i = i]

\* the closure convert(x, i) of _convert, called with i = op.i + 1 when the
\* transform of step op.i delivers its result x, a new payload of the step's
\* target type; ok: whether the next transform yields a result
convertNext(w, id, ok) ==
    LET op == w.ops[id]
        r == op.r
        i == op.i + 1
        stepCount == Len(op.path) - 1
        x == NewPayload(w)
        w0 == [w EXCEPT !.dtype[x] = op.path[i + 1]]
    IN  IF x = Absent THEN Overflow(w)
        ELSE IF i >= stepCount
        THEN LET w1 == [w0 EXCEPT !.recs[r].data = x, !.recs[r].loaded = TRUE,
                                  !.done = op.path[Len(op.path)], !.doneFor = op.drawer]
             IN  Settle(_checkAwaitsConvert(w1, r), id, x)
        ELSE IF ~ok THEN Reject([w0 EXCEPT !.recs[r].loaded = FALSE], id)
        ELSE [convertorDestroy(w0, x) EXCEPT !.ops[id].i = i]

\* transformTo(type)
transformTo(w, r, to, ok) ==
    LET rec == w.recs[r]
    IN  IF ~rec.loaded
        THEN IF Len(rec.queue) >= MaxQueue THEN Overflow(w)
             ELSE [w EXCEPT !.recs[r].queue = Append(@, Item("transform", r, Absent, NoType, to, TRUE))]
        ELSE IF rec.type \notin to THEN _convert(w, r, rec.type, to, ok)
        ELSE w

\* a job of the conversion queue, run by the timer of _checkAwaitsConvert
RunJob(w, job, ok) ==
    LET r == job.r
        rec == w.recs[r]
    IN  IF job.k = "set" THEN _overwriteData(w, r, job.d, job.ty, job.req)
        ELSE IF rec.destroyed THEN w
        ELSE IF rec.type \notin job.to
        THEN LET w1 == _convert(w, r, rec.type, job.to, ok)
             IN  IF w1.threw \/ w1.overflow THEN w1
                 ELSE Then(w1, r, Item("resolver", r, Absent, NoType, {}, TRUE))
        ELSE Then(w, r, Item("checkResolver", r, Absent, NoType, {}, TRUE))

\* the setTimeout callback of _checkAwaitsConvert
AwaitsConvertTimer(w, r, ok) ==
    LET rec == w.recs[r]
        w0 == [w EXCEPT !.timers[r] = @ - 1]
    IN  IF rec.queue = <<>> \/ rec.destroyed THEN w0
        ELSE RunJob([w0 EXCEPT !.recs[r].queue = Tail(@)], Head(rec.queue), ok)

\* the record takes a payload handed in by a caller: it exists from now on
Own(w, data, type) == IF w.dtype[data] = NoType THEN [w EXCEPT !.dtype[data] = type] ELSE w

\* _destroySelfUnsafe(data, type)
_destroySelfUnsafe(w, r, data, type) ==
    LET w1 == destroyInternalCache(convertorDestroy(w, data), r)
    IN  IF ~w1.recs[r].destroyed THEN w1
        ELSE [w1 EXCEPT !.recs[r].loaded = FALSE, !.recs[r].tiles = <<>>,
                        !.recs[r].tilesNull = TRUE, !.recs[r].data = Absent,
                        !.recs[r].type = NoType, !.recs[r].tRef = NoTile,
                        !.recs[r].promise = NullP]

\* destroy() without its guard on _destroyed
destroy_unguarded(w, r) ==
    LET rec == w.recs[r]
        w1 == [w EXCEPT !.recs[r].queue = <<>>, !.recs[r].destroyed = TRUE]
    IN  IF rec.loaded THEN _destroySelfUnsafe(w1, r, rec.data, rec.type)
        ELSE IF rec.promise # NullP
        THEN Then(w1, r, Item("destroySelf", r, Absent, rec.type, {}, FALSE))
        ELSE w1

\* destroy() that forgets a record whose payload has not arrived
destroy_dropsPending(w, r) ==
    IF w.recs[r].destroyed THEN w
    ELSE IF w.recs[r].loaded
    THEN _destroySelfUnsafe([w EXCEPT !.recs[r].queue = <<>>, !.recs[r].destroyed = TRUE],
                            r, w.recs[r].data, w.recs[r].type)
    ELSE [w EXCEPT !.recs[r].queue = <<>>, !.recs[r].destroyed = TRUE]

\* destroy()
destroy(w, r) ==
    LET rec == w.recs[r]
        w1 == [w EXCEPT !.recs[r].queue = <<>>, !.recs[r].destroyed = TRUE]
    IN  IF rec.destroyed THEN w
        ELSE IF rec.loaded THEN _destroySelfUnsafe(w1, r, rec.data, rec.type)
        ELSE IF rec.promise # NullP
        THEN Then(w1, r, Item("destroySelf", r, Absent, rec.type, {}, FALSE))
        ELSE w1

\* revive(); its $.console.assert only reports
revive(w, r) ==
    LET rec == w.recs[r]
    IN  [w EXCEPT !.violated = @ \/ ~(~rec.loaded /\ rec.type = NoType),
                  !.flag = ~rec.loaded /\ rec.type = NoType,
                  !.recs[r].tiles = <<>>, !.recs[r].tilesNull = FALSE,
                  !.recs[r].data = Absent, !.recs[r].type = NoType,
                  !.recs[r].loaded = FALSE, !.recs[r].promise = NullP,
                  !.recs[r].destroyed = FALSE,
                  !.net = IF r = R THEN 0 ELSE @]

InTiles(rec, tile) == \E n \in 1..Len(rec.tiles) : rec.tiles[n] = tile

\* addTile that attaches the tile but drops data handed to a record that has some
addTile_dropsData(w, r, tile, mode, data, type) ==
    LET rec == w.recs[r]
        id == NewOp(w)
        push(x) == [x EXCEPT !.recs[r].tiles = Append(@, tile), !.flag = TRUE,
                             !.net = IF r = R THEN @ + 1 ELSE @]
    IN  IF rec.destroyed THEN w
        ELSE IF mode # "none" /\ Len(rec.tiles) < 1
        THEN IF data = Absent \/ (mode = "promise" /\ id = 0) THEN Overflow(w)
             ELSE IF rec.type # NoType /\ rec.promise # NullP
                  THEN push(w)
                  ELSE IF mode = "promise"
                       THEN push([Own(w, data, type)
                                     EXCEPT !.ops[id] = [FreeOp EXCEPT !.kind = "load", !.r = r, !.x = data],
                                            !.recs[r].promise = Pend(id),
                                            !.recs[r].data = Absent,
                                            !.recs[r].type = type])
                       ELSE push([Own(w, data, type)
                                     EXCEPT !.recs[r].promise = Res(data),
                                            !.recs[r].data = data,
                                            !.recs[r].loaded = TRUE,
                                            !.recs[r].type = type])
        ELSE IF ~InTiles(rec, tile) /\ rec.type # NoType /\ rec.promise # NullP
        THEN push(w)
        ELSE w

\* addTile(tile, data, type); mode: no data ("none"), a value ("sync") or a promise
addTile(w, r, tile, mode, data, type) ==
    LET rec == w.recs[r]
        id == NewOp(w)
        push(x) == [x EXCEPT !.recs[r].tiles = Append(@, tile), !.flag = TRUE,
                             !.net = IF r = R THEN @ + 1 ELSE @]
    IN  IF rec.destroyed THEN w
        ELSE IF mode # "none" /\ Len(rec.tiles) < 1
        THEN IF data = Absent \/ (mode = "promise" /\ id = 0) THEN Overflow(w)
             ELSE LET w1 == Own(w, data, type)
                  IN  IF rec.type # NoType /\ rec.promise # NullP
                      THEN IF mode = "promise"
                           THEN push([w1 EXCEPT !.ops[id] = [FreeOp EXCEPT !.kind = "ovload", !.r = r,
                                                                          !.x = data, !.ty = type],
                                                !.recs[r].promise = Pend(id)])
                           ELSE push(_overwriteData(w1, r, data, type, FALSE))
                      ELSE IF mode = "promise"
                           THEN push([w1 EXCEPT !.ops[id] = [FreeOp EXCEPT !.kind = "load", !.r = r, !.x = data],
                                                !.recs[r].promise = Pend(id),
                                                !.recs[r].data = Absent,
                                                !.recs[r].type = type])
                           ELSE push([w1 EXCEPT !.recs[r].promise = Res(data),
                                                !.recs[r].data = data,
                                                !.recs[r].loaded = TRUE,
                                                !.recs[r].type = type])
        ELSE IF ~InTiles(rec, tile) /\ rec.type # NoType /\ rec.promise # NullP
        THEN push(w)
        ELSE w

\* the promise handed to addTile settles: the callback given to data.then runs
LoadSettled(w, id) ==
    LET op == w.ops[id]
        r == op.r
    IN  IF op.kind = "load"
        THEN Settle([w EXCEPT !.recs[r].data = op.x, !.recs[r].loaded = TRUE], id, op.x)
        ELSE Settle(_overwriteData(w, r, op.x, op.ty, FALSE), id, Absent)

\* the sequence without its n-th element (splice(n, 1))
RemoveAt(seq, n) == [m \in 1..(Len(seq) - 1) |-> IF m < n THEN seq[m] ELSE seq[m + 1]]

\* removeTile(tile) that forgets every owner at once
removeTile_all(w, r, tile) ==
    IF w.recs[r].destroyed \/ ~InTiles(w.recs[r], tile) THEN [w EXCEPT !.flag = FALSE]
    ELSE [w EXCEPT !.recs[r].tiles = <<>>, !.flag = TRUE, !.net = @ - 1]

\* removeTile(tile)
removeTile(w, r, tile) ==
    LET rec == w.recs[r]
        i == CHOOSE n \in 1..Len(rec.tiles) :
                 rec.tiles[n] = tile /\ \A m \in 1..(n - 1) : rec.tiles[m] # tile
        rest == RemoveAt(rec.tiles, i)
    IN  IF rec.destroyed \/ ~InTiles(rec, tile) THEN [w EXCEPT !.flag = FALSE]
        ELSE [w EXCEPT !.recs[r].tiles = rest,
                       !.recs[r].tRef = IF rec.tRef = tile
                                        THEN (IF i > 1 THEN rest[i - 1] ELSE NoTile)
                                        ELSE rec.tRef,
                       !.flag = TRUE, !.net = IF r = R THEN @ - 1 ELSE @]

\* getTileCount()
getTileCount(rec) == IF rec.tilesNull THEN 0 ELSE Len(rec.tiles)

\* SimpleCacheRecord.transformTo(type) on the shadow copy of drawer d
SimpleCacheRecord_transformTo(w, r, d, to, ok) ==
    LET sh == w.recs[r].internal[d]
        path == getConversionPath(sh.type, to)
        id == NewOp(w)
    IN  IF path = NoPath THEN w
        ELSE IF ~ok THEN [w EXCEPT !.recs[r].internal[d].loaded = FALSE,
                                   !.recs[r].internal[d].type = path[Len(path)],
                                   !.threw = TRUE]
        ELSE IF id = 0 THEN Overflow(w)
        ELSE [convertorDestroy(w, sh.data)
                 EXCEPT !.recs[r].internal[d].loaded = FALSE,
                        !.recs[r].internal[d].type = path[Len(path)],
                        !.recs[r].internal[d].data = Absent,
                        !.ops[id] = [FreeOp EXCEPT !.kind = "schain", !.r = r, !.drawer = d,
                                                   !.path = path, !.i = 0]]

\* prepareForRendering(drawerId, supportedTypes, keepInternalCopy)
prepareForRendering(w, r, d, supportedTypes, keepInternalCopy, ok) ==
    LET rec == w.recs[r]
        path == getConversionPath(rec.type, supportedTypes)
        w1 == [w EXCEPT !.recs[r].internal[d] = SimpleCacheRecord]
        id == NewOp(w)
    IN  IF ~rec.loaded \/ rec.type \in supportedTypes THEN w
        ELSE IF ~keepInternalCopy THEN transformTo(w, r, supportedTypes, ok)
        ELSE IF rec.internal[d].exists THEN w
        ELSE IF path = NoPath THEN w1
        ELSE IF id = 0 THEN Overflow(w)
        ELSE [w1 EXCEPT !.ops[id] = [FreeOp EXCEPT !.kind = "sconv", !.r = r, !.drawer = d,
                                                   !.path = path, !.i = 0]]

\* step op.i of a shadow's conversion delivers its result x:
\* "schain" is the closure of SimpleCacheRecord.transformTo,
\* "sconv" is $.convertor.convert followed by the then() of prepareForRendering
shadowNext(w, id) ==
    LET op == w.ops[id]
        r == op.r
        d == op.drawer
        i == op.i + 1
        stepCount == Len(op.path) - 1
        x == NewPayload(w)
        w0 == [w EXCEPT !.dtype[x] = op.path[i + 1]]
    IN  IF x = Absent THEN Overflow(w)
        ELSE IF i >= stepCount
        THEN IF op.detached THEN [w0 EXCEPT !.ops[id] = FreeOp]
             ELSE IF op.kind = "schain"
             THEN [w0 EXCEPT !.recs[r].internal[d].data = x,
                             !.recs[r].internal[d].loaded = TRUE,
                             !.ops[id] = FreeOp]
             ELSE [SimpleCacheRecord_setDataAs(w0, r, d, x, op.path[Len(op.path)])
                      EXCEPT !.ops[id] = FreeOp]
        ELSE [convertorDestroy(w0, x) EXCEPT !.ops[id].i = i]

\* the conversions w1 has started since w0 are those drawer d asked for
StartedFor(w0, w1, d) ==
    [w1 EXCEPT !.ops = [id \in OpIds |->
        IF w0.ops[id].kind = "free" /\ w1.ops[id].kind = "chain"
        THEN [w1.ops[id] EXCEPT !.drawer = d] ELSE w1.ops[id]]]

\* getDataForRendering that hands out the shadow copy's data whatever its state
getDataForRendering_unchecked(w, r, d, ok) ==
    LET rec == w.recs[r]
    IN  IF rec.loaded /\ rec.type \in DrawerFormats(d) THEN [w EXCEPT !.ret = rec.data]
        ELSE IF rec.internal[d].exists THEN [w EXCEPT !.ret = rec.internal[d].data]
        ELSE [w EXCEPT !.ret = rec.data]

\* getDataForRendering(drawer, tileToDraw); ret: the payload returned, Absent for undefined
getDataForRendering(w, r, d, ok) ==
    LET rec == w.recs[r]
        supportedTypes == DrawerFormats(d)
        keepInternalCopy == DrawerPrivate(d)
        internalCache == rec.internal[d]
    IN  IF rec.loaded /\ rec.type \in supportedTypes THEN [w EXCEPT !.ret = rec.data]
        ELSE IF rec.destroyed THEN w
        ELSE IF keepInternalCopy /\ ~internalCache.exists
        THEN prepareForRendering(w, r, d, supportedTypes, keepInternalCopy, ok)
        ELSE IF internalCache.exists
        THEN IF ~internalCache.loaded THEN w
             ELSE IF internalCache.type \notin supportedTypes
             THEN SimpleCacheRecord_transformTo(w, r, d, supportedTypes, ok)
             ELSE [w EXCEPT !.ret = internalCache.data]
        ELSE IF ~rec.loaded THEN w
             ELSE IF rec.type \notin supportedTypes
             THEN StartedFor(w, transformTo(w, r, supportedTypes, ok), d)
             ELSE [w EXCEPT !.ret = rec.data]

\* getDataAs(desiredType, true) of cloneCache reaches the data of the record:
\* i = 2: $.convertor.copy of the loaded data, 3: the record is destroyed,
\* nothing is copied, 1: _transformDataIfNeeded converts or copies;
\* path: the type of the copy, empty when the conversion cannot be done
cloneStart(w, id, direct) ==
    LET op == w.ops[id]
        rec == w.recs[op.r]
        target == IF op.ty = NoType THEN rec.type ELSE op.ty
    IN  IF direct /\ op.ty = rec.type
        THEN [w EXCEPT !.ops[id].i = 2, !.ops[id].path = <<rec.type>>]
        ELSE IF rec.destroyed THEN [w EXCEPT !.ops[id].i = 3]
        ELSE IF target # rec.type /\ getConversionPath(rec.type, {target}) = NoPath
        THEN [w EXCEPT !.ops[id].i = 1]
        ELSE [w EXCEPT !.ops[id].i = 1, !.ops[id].path = <<target>>]

\* a reaction registered with then() runs
RunReaction(w, item) ==
    CASE item.k = "resolver"      -> w
      [] item.k = "checkResolver" -> _checkAwaitsConvert(w, item.r)
      [] item.k = "destroySelf"   -> _destroySelfUnsafe(w, item.r, item.v, item.ty)
      [] item.k = "clone"         -> cloneStart(w, item.d, FALSE)
      [] OTHER                    -> OverwriteNow(w, item.r, item.d, item.ty)

\* ------------------------------------------------------------ the tiles
\* a map from keys to records that keeps the order of insertion
GetSeq(seq, k) ==
    IF \E n \in 1..Len(seq) : seq[n].key = k
    THEN seq[CHOOSE n \in 1..Len(seq) : seq[n].key = k].rec ELSE NoRec

PutSeq(seq, k, r) ==
    IF \E n \in 1..Len(seq) : seq[n].key = k
    THEN [n \in 1..Len(seq) |-> IF seq[n].key = k THEN [key |-> k, rec |-> r] ELSE seq[n]]
    ELSE Append(seq, [key |-> k, rec |-> r])

DelSeq(seq, k) == SelectSeq(seq, LAMBDA e : e.key # k)

\* tile.getCacheSize()
Tile_getCacheSize(w, t) == Len(w.tileObjs[t].caches)

\* tile.getCache(): the record under the tile's main key
Tile_getCache(w, t) == GetSeq(w.tileObjs[t].caches, w.tileObjs[t].cacheKey)

\* tile.reflectCacheRenamed(oldKey, newKey)
Tile_reflectCacheRenamed(w, t, oldKey, newKey) ==
    LET caches == w.tileObjs[t].caches
        rec == GetSeq(caches, oldKey)
    IN  IF rec = NoRec THEN w
        ELSE [w EXCEPT !.tileObjs[t].caches = PutSeq(DelSeq(caches, oldKey), newKey, rec),
                       !.tileObjs[t].cacheKey = IF @ = oldKey THEN newKey ELSE @]

\* tile._unload(), on the tile object
Tile__unload(tileObj) == [tileObj EXCEPT !.caches = <<>>, !.loaded = FALSE]

\* tile.level and tile.lastTouchTime; a tile is busy while it is being drawn,
\* loading or processing
TileLevel(t) == IF t = "t1" THEN 1 ELSE 2
TileTime(tileObj) == tileObj.time
TileBusy(tileObj) == tileObj.busy # "no"

\* --------------------------------------------------------- TileCache
\* records something still refers to
Referenced(w) ==
    {w.tc.cachesLoaded[k] : k \in Keys}
        \cup {w.tc.zombiesLoaded[n].rec : n \in 1..Len(w.tc.zombiesLoaded)}
        \cup {w.ops[id].r : id \in OpIds}
        \cup {w.micro[n].r : n \in 1..Len(w.micro)}
        \cup UNION {{w.ops[id].rx[n].r : n \in 1..Len(w.ops[id].rx)} : id \in OpIds}
        \cup UNION {{w.tileObjs[t].caches[n].rec : n \in 1..Len(w.tileObjs[t].caches)} : t \in TileIds}
        \cup {r \in RecIds : w.timers[r] > 0}

\* new $.CacheRecord(): the identity of the new object, NoRec when none is left
NewRec(w) ==
    IF RecIds \ Referenced(w) = {} THEN NoRec
    ELSE CHOOSE r \in RecIds \ Referenced(w) : \A q \in RecIds \ Referenced(w) : r <= q

\* the end of unloadCacheForTile that destroys the record whatever the caller asked
DropRecord_alwaysDestroys(w1, key, cacheRecord, destroyIt) ==
    IF ~w1.flag \/ getTileCount(w1.recs[cacheRecord]) # 0 THEN w1
    ELSE [destroy(w1, cacheRecord)
             EXCEPT !.tc.cachesLoaded[key] = NoRec,
                    !.tc.cachesLoadedCount = @ - 1,
                    !.flag = TRUE]

\* the end of unloadCacheForTile, in the world w1 that removeTile left: a
\* record without tiles leaves the active map, destroyed or as a zombie
DropRecord(w1, key, cacheRecord, destroyIt) ==
    IF ~w1.flag \/ getTileCount(w1.recs[cacheRecord]) # 0 THEN w1
    ELSE [(IF destroyIt THEN destroy(w1, cacheRecord)
           ELSE [w1 EXCEPT !.tc.zombiesLoaded = PutSeq(@, key, cacheRecord),
                           !.tc.zombiesLoadedCount = @ + 1])
             EXCEPT !.tc.cachesLoaded[key] = NoRec,
                    !.tc.cachesLoadedCount = @ - 1,
                    !.flag = TRUE]

\* unloadCacheForTile(tile, key, destroy, okIfNotExists); flag: its result
unloadCacheForTile(w, t, key, destroyIt, okIfNotExists) ==
    IF w.tc.cachesLoaded[key] = NoRec THEN [w EXCEPT !.flag = FALSE]
    ELSE DropRecord(removeTile(w, w.tc.cachesLoaded[key], t),
                    key, w.tc.cachesLoaded[key], destroyIt)

\* the loop of _unloadTile over the keys of tile._caches
RECURSIVE UnloadKeys(_, _, _, _)
UnloadKeys(w, t, caches, destroyIt) ==
    IF caches = <<>> THEN w
    ELSE UnloadKeys(unloadCacheForTile(w, t, Head(caches).key, destroyIt, FALSE),
                    t, Tail(caches), destroyIt)

\* splice(index, 1) with JavaScript's index from 0; -1 counts from the end
Splice(seq, index) ==
    LET n == IF index < 0 THEN Len(seq) + index + 1 ELSE index + 1
    IN  IF n < 1 \/ n > Len(seq) THEN seq ELSE RemoveAt(seq, n)

\* deleteAtIndex of _unloadTile when the caller passes none
NoIndex == -2

\* _unloadTile(tile, destroy, deleteAtIndex)
_unloadTile(w, t, destroyIt, deleteAtIndex) ==
    [UnloadKeys(w, t, w.tileObjs[t].caches, destroyIt)
        EXCEPT !.tc.tilesLoaded = IF deleteAtIndex = NoIndex THEN @
                                  ELSE Splice(@, deleteAtIndex),
               !.tileObjs[t] = IF ~@.loaded THEN @ ELSE Tile__unload(@)]

\* findIndex(x => x === tile), -1 when the tile is not listed
FindIndex(seq, t) ==
    IF \E n \in 1..Len(seq) : seq[n] = t
    THEN (CHOOSE n \in 1..Len(seq) : seq[n] = t /\ \A m \in 1..(n - 1) : seq[m] # t) - 1
    ELSE -1

\* unloadTile(tile, destroy)
unloadTile(w, t, destroyIt) ==
    IF ~w.tileObjs[t].loaded THEN w
    ELSE _unloadTile(w, t, destroyIt, FindIndex(w.tc.tilesLoaded, t))

\* the scan of _freeOldRecordRoutine without its exemptions: no tile is skipped
RECURSIVE WorstTile_unprotected(_, _, _, _, _)
WorstTile_unprotected(tl, tiles, i, cutoff, worst) ==
    IF i < 1 THEN worst
    ELSE IF worst = 0 THEN WorstTile_unprotected(tl, tiles, i - 1, cutoff, i)
    ELSE IF \/ TileTime(tiles[tl[i]]) < TileTime(tiles[tl[worst]])
            \/ /\ TileTime(tiles[tl[i]]) = TileTime(tiles[tl[worst]])
               /\ TileLevel(tl[i]) > TileLevel(tl[worst])
    THEN WorstTile_unprotected(tl, tiles, i - 1, cutoff, i)
    ELSE WorstTile_unprotected(tl, tiles, i - 1, cutoff, worst)

\* the scan of _freeOldRecordRoutine that compares levels only
RECURSIVE WorstTile_byLevel(_, _, _, _, _)
WorstTile_byLevel(tl, tiles, i, cutoff, worst) ==
    IF i < 1 THEN worst
    ELSE IF TileLevel(tl[i]) <= cutoff \/ TileBusy(tiles[tl[i]])
    THEN WorstTile_byLevel(tl, tiles, i - 1, cutoff, worst)
    ELSE IF worst = 0 THEN WorstTile_byLevel(tl, tiles, i - 1, cutoff, i)
    ELSE IF TileLevel(tl[i]) > TileLevel(tl[worst])
    THEN WorstTile_byLevel(tl, tiles, i - 1, cutoff, i)
    ELSE WorstTile_byLevel(tl, tiles, i - 1, cutoff, worst)

\* the scan of _freeOldRecordRoutine from index i (from 1) down: the index of
\* the worst tile, 0 when there is none
RECURSIVE WorstTile(_, _, _, _, _)
WorstTile(tl, tiles, i, cutoff, worst) ==
    IF i < 1 THEN worst
    ELSE LET prevTile == tl[i]
         IN  IF TileLevel(prevTile) <= cutoff \/ TileBusy(tiles[prevTile])
             THEN WorstTile(tl, tiles, i - 1, cutoff, worst)
             ELSE IF worst = 0 THEN WorstTile(tl, tiles, i - 1, cutoff, i)
             ELSE IF \/ TileTime(tiles[prevTile]) < TileTime(tiles[tl[worst]])
                     \/ /\ TileTime(tiles[prevTile]) = TileTime(tiles[tl[worst]])
                        /\ TileLevel(prevTile) > TileLevel(tl[worst])
             THEN WorstTile(tl, tiles, i - 1, cutoff, i)
             ELSE WorstTile(tl, tiles, i - 1, cutoff, worst)

\* the end of _freeOldRecordRoutine, in the world w1 the eviction left: the
\* tile is listed when it had no cache yet; insertionIndex (from 1) is the
\* place of the evicted tile, 0 when no tile was evicted
ListTile(w1, theTile, insertionIndex) ==
    IF Tile_getCacheSize(w1, theTile) = 0
    THEN IF insertionIndex > 0
         THEN [w1 EXCEPT !.tc.tilesLoaded[insertionIndex] = theTile]
         ELSE [w1 EXCEPT !.tc.tilesLoaded = Append(@, theTile)]
    ELSE IF insertionIndex > 0
         THEN [w1 EXCEPT !.tc.tilesLoaded = RemoveAt(@, insertionIndex)]
         ELSE w1

\* _freeOldRecordRoutine that frees nothing: the tile is only listed
_freeOldRecordRoutine_keepsAll(w, theTile, cutoff) == ListTile(w, theTile, 0)

\* _freeOldRecordRoutine whose loop over the zombies has no break (two keys:
\* at most two zombies)
_freeOldRecordRoutine_allZombies(w, theTile, cutoff) ==
    IF w.tc.cachesLoadedCount + w.tc.zombiesLoadedCount <= maxImageCacheCount
    THEN ListTile(w, theTile, 0)
    ELSE IF w.tc.zombiesLoadedCount > 0
    THEN ListTile(IF w.tc.zombiesLoaded = <<>> THEN w
                  ELSE [(IF Len(w.tc.zombiesLoaded) > 1
                         THEN destroy(destroy(w, w.tc.zombiesLoaded[1].rec),
                                      w.tc.zombiesLoaded[2].rec)
                         ELSE destroy(w, w.tc.zombiesLoaded[1].rec))
                           EXCEPT !.tc.zombiesLoaded = <<>>, !.tc.zombiesLoadedCount = 0],
                  theTile, 0)
    ELSE IF WorstTile(w.tc.tilesLoaded, w.tileObjs, Len(w.tc.tilesLoaded), cutoff, 0) > 0
    THEN ListTile(_unloadTile(w, w.tc.tilesLoaded[WorstTile(w.tc.tilesLoaded, w.tileObjs,
                                                            Len(w.tc.tilesLoaded), cutoff, 0)],
                              TRUE, NoIndex),
                  theTile,
                  WorstTile(w.tc.tilesLoaded, w.tileObjs, Len(w.tc.tilesLoaded), cutoff, 0))
    ELSE ListTile(w, theTile, 0)

\* _freeOldRecordRoutine(theTile, cutoff)
_freeOldRecordRoutine(w, theTile, cutoff) ==
    LET over == w.tc.cachesLoadedCount + w.tc.zombiesLoadedCount > maxImageCacheCount
        zombie == Head(w.tc.zombiesLoaded)
        worst == WorstTile(w.tc.tilesLoaded, w.tileObjs, Len(w.tc.tilesLoaded), cutoff, 0)
        evicted == over /\ w.tc.zombiesLoadedCount <= 0 /\ worst > 0
    IN  ListTile(IF ~over THEN w
                 ELSE IF w.tc.zombiesLoadedCount > 0
                 THEN IF w.tc.zombiesLoaded = <<>>
                      THEN w
                      ELSE [destroy(w, zombie.rec) EXCEPT !.tc.zombiesLoaded = Tail(@),
                                                          !.tc.zombiesLoadedCount = @ - 1]
                 ELSE IF worst > 0
                 THEN _unloadTile(w, w.tc.tilesLoaded[worst], TRUE, NoIndex)
                 ELSE w,
                 theTile, IF evicted THEN worst ELSE 0)

\* cacheTile(options): tile, cacheKey, data (mode, data), dataType, cutoff
cacheTile(w, theTile, cacheKey, mode, data, dataType, cutoff) ==
    LET active == w.tc.cachesLoaded[cacheKey]
        zombie == GetSeq(w.tc.zombiesLoaded, cacheKey)
        fresh == NewRec(w)
        promote(x) == [x EXCEPT !.tc.zombiesLoaded = DelSeq(@, cacheKey),
                                !.tc.zombiesLoadedCount = @ - 1,
                                !.tc.cachesLoaded[cacheKey] = zombie,
                                !.tc.cachesLoadedCount = @ + 1]
        cacheRecord == IF active # NoRec THEN active
                       ELSE IF zombie # NoRec THEN zombie ELSE fresh
        \* a zombie not destroyed keeps its data: options.data is deleted
        zombieReady == zombie # NoRec /\ ~w.recs[zombie].destroyed
    IN  IF cacheRecord = NoRec THEN Overflow(w)
        ELSE [_freeOldRecordRoutine(
                 addTile(IF active # NoRec THEN w
                         ELSE IF zombie # NoRec
                         THEN promote(IF w.recs[zombie].destroyed
                                      THEN revive(w, zombie) ELSE w)
                         ELSE [w EXCEPT !.violated = @ \/ mode = "none",
                                        !.recs[fresh] = NewRecord,
                                        !.tc.cachesLoaded[cacheKey] = fresh,
                                        !.tc.cachesLoadedCount = @ + 1],
                         cacheRecord, theTile,
                         IF active = NoRec /\ zombieReady THEN "none" ELSE mode,
                         data, dataType),
                 theTile, cutoff)
              EXCEPT !.ret = cacheRecord]

\* tile.addCache(key, data, type, setAsMain): the tile caches the data and
\* keeps the record
\* the end of tile.addCache, in the world w1 that cacheTile left
Tile_setCache(w1, t, key, setAsMain) ==
    IF w1.overflow THEN w1
    ELSE [w1 EXCEPT !.tileObjs[t].caches = PutSeq(@, key, w1.ret),
                    !.tileObjs[t].cacheKey = IF setAsMain \/ @ = NoKey THEN key ELSE @]

Tile_addCache(w, t, key, mode, data, type, cutoff, setAsMain) ==
    Tile_setCache(cacheTile(w, t, key, mode, data, type, cutoff), t, key, setAsMain)

\* the loop of renameCache over originalCache._tiles
RECURSIVE ReflectRenamed(_, _, _, _)
ReflectRenamed(w, ts, oldKey, newKey) ==
    IF ts = <<>> THEN w
    ELSE ReflectRenamed(Tile_reflectCacheRenamed(w, Head(ts), oldKey, newKey),
                        Tail(ts), oldKey, newKey)

\* renameCache without the two checks that the target key is occupied
renameCache_overwrites(w, oldKey, newKey) ==
    LET active == w.tc.cachesLoaded[oldKey]
        zombie == GetSeq(w.tc.zombiesLoaded, oldKey)
        originalCache == IF active # NoRec THEN active ELSE zombie
        moved == IF active = NoRec
                 THEN [w EXCEPT !.tc.zombiesLoaded = DelSeq(PutSeq(@, newKey, zombie), oldKey)]
                 ELSE [w EXCEPT !.tc.cachesLoaded[newKey] = active,
                                !.tc.cachesLoaded[oldKey] = NoRec]
    IN  IF active = NoRec /\ zombie = NoRec
        THEN [w EXCEPT !.violated = TRUE, !.threw = TRUE]
        ELSE IF w.recs[originalCache].tilesNull THEN [moved EXCEPT !.threw = TRUE]
        ELSE [ReflectRenamed(moved, w.recs[originalCache].tiles, oldKey, newKey)
                 EXCEPT !.flag = TRUE]

\* renameCache(options); flag: a record is returned, not null
renameCache(w, oldKey, newKey) ==
    LET active == w.tc.cachesLoaded[oldKey]
        zombie == GetSeq(w.tc.zombiesLoaded, oldKey)
        originalCache == IF active # NoRec THEN active ELSE zombie
        moved == IF active = NoRec
                 THEN [w EXCEPT !.tc.zombiesLoaded = DelSeq(PutSeq(@, newKey, zombie), oldKey)]
                 ELSE [w EXCEPT !.tc.cachesLoaded[newKey] = active,
                                !.tc.cachesLoaded[oldKey] = NoRec]
    IN  IF active = NoRec /\ GetSeq(w.tc.zombiesLoaded, newKey) # NoRec
        THEN [w EXCEPT !.violated = @ \/ zombie = NoRec]
        ELSE IF active = NoRec /\ zombie = NoRec
        THEN [w EXCEPT !.violated = TRUE, !.threw = TRUE]
        ELSE IF active # NoRec /\ w.tc.cachesLoaded[newKey] # NoRec THEN w
        ELSE IF w.recs[originalCache].tilesNull THEN [moved EXCEPT !.threw = TRUE]
        ELSE [ReflectRenamed(moved, w.recs[originalCache].tiles, oldKey, newKey)
                 EXCEPT !.flag = TRUE]

\* cloneCache(options): tile, copyTargetKey, newCacheKey, desiredType
cloneCache(w, theTile, copyTargetKey, newCacheKey, desiredType) ==
    LET cacheRecord == IF w.tc.cachesLoaded[copyTargetKey] # NoRec
                       THEN w.tc.cachesLoaded[copyTargetKey]
                       ELSE GetSeq(w.tc.zombiesLoaded, copyTargetKey)
        id == NewOp(w)
        w1 == [w EXCEPT !.violated = @ \/ w.tc.cachesLoaded[newCacheKey] # NoRec,
                        !.ops[id] = [FreeOp EXCEPT !.kind = "clone", !.r = cacheRecord,
                                                   !.tile = theTile, !.key = newCacheKey,
                                                   !.ty = desiredType]]
    IN  IF cacheRecord = NoRec THEN [w EXCEPT !.violated = TRUE, !.threw = TRUE]
        ELSE IF id = 0 THEN Overflow(w)
        ELSE IF w.recs[cacheRecord].loaded THEN cloneStart(w1, id, TRUE)
        ELSE IF w.recs[cacheRecord].promise = NullP THEN [w1 EXCEPT !.ops[id] = FreeOp, !.threw = TRUE]
        ELSE Then(w1, cacheRecord, Item("clone", cacheRecord, id, NoType, {}, FALSE))

\* the copy of cloneCache is delivered and the callback given to then() runs
cloneSettled(w, id) ==
    LET op == w.ops[id]
        made == op.i # 3 /\ op.path # <<>>
        x == IF made THEN NewPayload(w) ELSE Absent
        w0 == IF made THEN [w EXCEPT !.dtype[x] = op.path[1]] ELSE w
        dropped == op.i = 1 /\ w.recs[op.r].destroyed
        w1 == IF dropped THEN convertorDestroy(w0, x) ELSE w0
        data == IF dropped THEN Absent ELSE x
        newRecord == NewRec(w)
        w2 == [w1 EXCEPT !.ops[id] = FreeOp,
                         !.recs[newRecord] = NewRecord,
                         !.tc.cachesLoaded[op.key] = newRecord]
        w3 == addTile(w2, newRecord, op.tile, IF data = Absent THEN "none" ELSE "sync",
                      data, w.recs[op.r].type)
    IN  IF (made /\ x = Absent) \/ newRecord = NoRec THEN Overflow(w)
        ELSE _freeOldRecordRoutine([w3 EXCEPT !.tc.cachesLoadedCount = @ + 1], op.tile, 0)

\* the loops of consumeCache: the consumer's tiles are unloaded from its key,
\* and the tiles of the tile's cache are attached to the renamed record
RECURSIVE UnloadTiles(_, _, _)
UnloadTiles(w, ts, key) ==
    IF ts = <<>> THEN w
    ELSE UnloadTiles(unloadCacheForTile(w, Head(ts), key, TRUE, FALSE), Tail(ts), key)

RECURSIVE AddCaches(_, _, _, _, _)
AddCaches(w, ts, except, key, resultCache) ==
    IF ts = <<>> \/ w.overflow THEN w
    ELSE LET rec == w.recs[resultCache]
             w1 == IF Head(ts) = except THEN w
                   ELSE Tile_addCache(w, Head(ts), key,
                                      IF rec.data = Absent THEN "none" ELSE "sync",
                                      rec.data, rec.type, 0, TRUE)
         IN  AddCaches(w1, Tail(ts), except, key, resultCache)

\* the end of consumeCache, in the world w2 that renameCache left: with a
\* resultCache the other tiles of the tile's cache get the record
ShareResult(w2, ts, except, key, resultCache) ==
    IF w2.flag /\ ~w2.threw THEN AddCaches(w2, ts, except, key, resultCache) ELSE w2

\* consumeCache(options): tile, victimKey, consumerKey, tileAllowNotLoaded
consumeCache(w, t, victimKey, consumerKey, tileAllowNotLoaded) ==
    LET victim == w.tc.cachesLoaded[victimKey]
        consumer == w.tc.cachesLoaded[consumerKey]
        main == Tile_getCache(w, t)
        ts == w.recs[main].tiles
    IN  IF victim = NoRec \/ (~tileAllowNotLoaded /\ ~w.tileObjs[t].loaded) THEN w
        ELSE IF main = NoRec THEN [w EXCEPT !.threw = TRUE]
        ELSE IF w.recs[main].tilesNull THEN [w EXCEPT !.threw = TRUE]
        ELSE IF consumer # NoRec /\ w.recs[consumer].tilesNull THEN [w EXCEPT !.threw = TRUE]
        ELSE ShareResult(renameCache([(IF consumer # NoRec
                                       THEN UnloadTiles(w, w.recs[consumer].tiles, consumerKey)
                                       ELSE w) EXCEPT !.flag = FALSE],
                                     victimKey, consumerKey),
                         ts, t, consumerKey, victim)

\* the zombies of clearTilesFor are destroyed, all of them
RECURSIVE DestroyZombies(_, _)
DestroyZombies(w, zs) ==
    IF zs = <<>> THEN w ELSE DestroyZombies(destroy(w, Head(zs).rec), Tail(zs))

\* the loop of clearTilesFor over _tilesLoaded, from index i (from 1) down
RECURSIVE ClearTiles(_, _, _)
ClearTiles(w, i, destroyIt) ==
    IF i < 1 THEN w
    ELSE LET t == w.tc.tilesLoaded[i]
         IN  IF ~w.tileObjs[t].loaded
             THEN ClearTiles([w EXCEPT !.tc.tilesLoaded = RemoveAt(@, i)], i - 1, destroyIt)
             ELSE ClearTiles(_unloadTile(w, t, destroyIt, i - 1), i - 1, destroyIt)

\* clearTilesFor(tiledImage): every tile belongs to the one tiled image;
\* zombieCache: tiledImage._zombieCache
clearTilesFor(w, zombieCache) ==
    LET cacheOverflows == w.tc.cachesLoadedCount + w.tc.zombiesLoadedCount > maxImageCacheCount
        purge == zombieCache /\ cacheOverflows /\ w.tc.zombiesLoadedCount > 0
        w1 == IF purge
              THEN [DestroyZombies(w, w.tc.zombiesLoaded) EXCEPT !.tc.zombiesLoaded = <<>>,
                                                               !.tc.zombiesLoadedCount = 0]
              ELSE w
        stillOver == IF purge THEN w.tc.cachesLoadedCount > maxImageCacheCount
                     ELSE cacheOverflows
    IN  ClearTiles(w1, Len(w1.tc.tilesLoaded), ~zombieCache \/ stillOver)

\* ---------------------------------------------------------------- steps
\* types a caller hands in with its data, and targets it asks conversions to
InputTypes == {"A", "X"}
Targets == {{"A"}, {"B"}, {"C"}}

\* the step to world w, taken by operation op
Apply(w, op) ==
    /\ ~w.overflow
    /\ recs' = w.recs
    /\ ops' = w.ops
    /\ micro' = w.micro
    /\ timers' = w.timers
    /\ released' = w.released
    /\ dtype' = w.dtype
    /\ violated' = w.violated
    /\ tc' = w.tc
    /\ tileObjs' = w.tileObjs
    /\ net' = w.net
    /\ issued' = w.issued
    /\ last' = [op |-> op, ret |-> w.ret, flag |-> w.flag, threw |-> w.threw,
                 done |-> w.done, doneFor |-> w.doneFor]

\* a call of the environment, and a step of the run time
Call(w, op) == calls < MaxCalls /\ calls' = calls + 1 /\ Apply(w, op)
Step(w, op) == calls' = calls /\ Apply(w, op)
CacheCall(w, op) == calls < MaxCacheCalls /\ calls' = calls + 1 /\ Apply(w, op)

Init ==
    /\ recs = [r \in RecIds |-> NewRecord]
    /\ ops = [id \in OpIds |-> FreeOp]
    /\ micro = <<>>
    /\ timers = [r \in RecIds |-> 0]
    /\ released = [p \in Payloads |-> 0]
    /\ dtype = [p \in Payloads |-> NoType]
    /\ violated = FALSE
    /\ last = [op |-> "init", ret |-> Absent, flag |-> FALSE, threw |-> FALSE,
               done |-> NoType, doneFor |-> NoTile]
    /\ calls = 0
    /\ tc = TileCache
    /\ tileObjs = [t \in TileIds |-> NewTile]
    /\ net = 0
    /\ issued = <<>>

\* calls on the record R
AddTile ==
    \E tile \in TileIds, mode \in {"none", "sync", "promise"}, type \in InputTypes :
        Call(addTile(World, R, tile, mode, NewPayload(World), type), "addTile")

RemoveTile ==
    \E tile \in TileIds : Call(removeTile(World, R, tile), "removeTile")

\* setDataAs with a new payload, or with the very payload and type the record holds
SetDataAs ==
    \/ \E type \in InputTypes :
          /\ NewPayload(World) # Absent
          /\ Call(setDataAs(Own(World, NewPayload(World), type), R, NewPayload(World), type),
                   "setDataAs")
    \/ /\ recs[R].data # Absent
       /\ Call(setDataAs(World, R, recs[R].data, recs[R].type), "setDataAs")

TransformTo ==
    \E to \in Targets : Call(transformTo(World, R, to, TRUE), "transformTo")

Destroy == Call(destroy(World, R), "destroy")

Revive == Call(revive(World, R), "revive")

GetDataForRendering ==
    \E d \in DrawerIds : Call(getDataForRendering(World, R, d, TRUE), "getDataForRendering")

PrepareForRendering ==
    \E d \in DrawerIds :
        Call(prepareForRendering(World, R, d, DrawerFormats(d), DrawerPrivate(d), TRUE),
              "prepareForRendering")

\* steps of the run time
LoadSettles ==
    \E id \in OpIds :
        /\ ops[id].kind \in {"load", "ovload"}
        /\ Step(LoadSettled(World, id), "loadSettles")

ConvertStep ==
    \E id \in OpIds :
        /\ ops[id].kind = "chain"
        /\ Step(convertNext(World, id, TRUE), "convertStep")

ShadowStep ==
    \E id \in OpIds :
        /\ ops[id].kind \in {"sconv", "schain"}
        /\ Step(shadowNext(World, id), "shadowStep")

\* a timer runs only once the microtask queue is empty
Timer ==
    \E r \in RecIds :
        /\ timers[r] > 0
        /\ micro = <<>>
        /\ Step(AwaitsConvertTimer(World, r, TRUE), "timer")

Microtask ==
    /\ micro # <<>>
    /\ Step(RunReaction([World EXCEPT !.micro = Tail(@)], Head(micro)), "microtask")

\* $.console.assert logs and returns: the program goes on past a failed
\* assertion, and `violated` keeps that one has failed
Next ==
    \/ AddTile
    \/ RemoveTile
    \/ SetDataAs
    \/ TransformTo
    \/ Destroy
    \/ Revive
    \/ GetDataForRendering
    \/ PrepareForRendering
    \/ LoadSettles
    \/ ConvertStep
    \/ ShadowStep
    \/ Timer
    \/ Microtask

Spec == Init /\ [][Next]_vars

\* -------------------------------------------------- the cache of tiles
\* tile.removeCache(key, destroy): the tile gives up the record under the key
Tile_removeCache(w, t, key, destroyIt) ==
    LET w1 == unloadCacheForTile(w, t, key, destroyIt, FALSE)
    IN  IF w1.flag THEN [w1 EXCEPT !.tileObjs[t].caches = DelSeq(@, key)] ELSE w1

\* the desired types cloneCache is called with; NoType: none given
CloneTypes == {NoType, "B"}

\* a tile receives its data and caches it under a key
CacheTile ==
    \E t \in TileIds, k \in Keys, mode \in {"none", "sync", "promise"}, cutoff \in {0, 1} :
        CacheCall([Tile_addCache(World, t, k, mode, NewPayload(World), "A", cutoff, FALSE)
                 EXCEPT !.tileObjs[t].loaded = TRUE],
             "cacheTile")

\* callers rename a cache they hold: the old key names a record
RenameCache ==
    \E oldKey \in Keys, newKey \in Keys :
        /\ tc.cachesLoaded[oldKey] # NoRec \/ GetSeq(tc.zombiesLoaded, oldKey) # NoRec
        /\ CacheCall(renameCache(World, oldKey, newKey), "renameCache")

CloneCache ==
    \E t \in TileIds, k \in Keys, newKey \in Keys, desiredType \in CloneTypes :
        CacheCall(cloneCache(World, t, k, newKey, desiredType), "cloneCache")

ConsumeCache ==
    \E t \in TileIds, victimKey \in Keys, consumerKey \in Keys, allow \in BOOLEAN :
        CacheCall(consumeCache(World, t, victimKey, consumerKey, allow), "consumeCache")

UnloadCacheForTile ==
    \E t \in TileIds, k \in Keys, destroyIt \in BOOLEAN :
        CacheCall(Tile_removeCache(World, t, k, destroyIt), "unloadCacheForTile")

UnloadTile ==
    \E t \in TileIds, destroyIt \in BOOLEAN :
        CacheCall(unloadTile(World, t, destroyIt), "unloadTile")

ClearTilesFor ==
    \E zombieCache \in BOOLEAN :
        CacheCall(clearTilesFor(World, zombieCache), "clearTilesFor")

CloneSettles ==
    \E id \in OpIds :
        /\ ops[id].kind = "clone" /\ ops[id].i > 0
        /\ Step(cloneSettled(World, id), "cloneSettles")

NextCache ==
    \/ CacheTile
    \/ RenameCache
    \/ CloneCache
    \/ ConsumeCache
    \/ UnloadCacheForTile
    \/ UnloadTile
    \/ ClearTilesFor
    \/ CloneSettles
    \/ LoadSettles
    \/ Microtask

SpecCache == Init /\ [][NextCache]_vars

\* ------------------------------------------- a record and its requests
\* The record gets its first tile with data, then only conversion and
\* overwrite requests arrive; it is never destroyed. Each transformTo is
\* logged with the state it found.
FirstTile ==
    /\ calls = 0
    /\ \E mode \in {"sync", "promise"}, type \in InputTypes :
           Call(addTile(World, R, "t1", mode, NewPayload(World), type), "addTile")

Request ==
    /\ calls > 0
    /\ \E to \in Targets :
           Call([transformTo(World, R, to, TRUE) EXCEPT
                    !.issued = Append(@, [to |-> to, type |-> recs[R].type,
                                          loaded |-> recs[R].loaded])],
                "transformTo")

Overwrite == calls > 0 /\ SetDataAs

Settling == LoadSettles \/ ConvertStep \/ Timer \/ Microtask

NextRequests ==
    \/ FirstTile
    \/ Request
    \/ Overwrite
    \/ LoadSettles
    \/ ConvertStep
    \/ Timer
    \/ Microtask

\* promises that can settle do settle, due microtasks and timers run
SpecRequests == Init /\ [][NextRequests]_vars /\ WF_vars(Settling)

\* ---------------------------------------------------------------- claims
\* conversions of record r in flight
Conversions(r) == {id \in OpIds : ops[id].kind = "chain" /\ ops[id].r = r}

\* the reactions waiting on pending promises, and those due
Waiting == {it \in UNION {{ops[id].rx[n] : n \in 1..Len(ops[id].rx)} : id \in OpIds} : TRUE}
Due == {micro[n] : n \in 1..Len(micro)}

\* destroy() has deferred the release of record r and it has not run yet
PendingRelease(r) == \E it \in Waiting \cup Due : it.k = "destroySelf" /\ it.r = r

\* nothing of the run time is left to do
Quiescent ==
    /\ \A id \in OpIds : ops[id].kind = "free"
    /\ micro = <<>>
    /\ \A r \in RecIds : timers[r] = 0

\* no assertion of the code has failed so far: every call was a legal one
Legal == ~violated

\* C2: as long as every call is legal, at most one conversion (chain of
\* _convert) of a record is in flight at any time.
C2_TwoChains == Legal => Cardinality(Conversions(R)) <= 1

\* C4: getTileCount() is the number of attaches minus the number of detaches
\* and never negative, and a removeTile, also one that reaches zero, neither
\* sets the destroyed flag nor releases a payload.
C4_TileCount ==
    [][/\ ~recs'[R].destroyed => getTileCount(recs'[R]) = net' /\ net' >= 0
       /\ last'.op = "removeTile" =>
             /\ recs'[R].destroyed = recs[R].destroyed
             /\ released' = released
             /\ recs'[R].data = recs[R].data]_vars

C4_Witness ==
    /\ last.op = "removeTile" /\ last.flag
    /\ getTileCount(recs[R]) = 0
    /\ recs[R].loaded /\ ~recs[R].destroyed
    /\ released[recs[R].data] = 0

\* C5: as long as every call is legal, a loaded record has a payload and a
\* type, and its promise is resolved with that payload.
C5_Loaded ==
    (Legal /\ recs[R].loaded) =>
        /\ recs[R].data # Absent
        /\ recs[R].type # NoType
        /\ recs[R].promise = Res(recs[R].data)

\* C6: a second destroy() changes nothing, whatever state the first found
\* (loaded, load pending, conversion pending): the state after two calls is
\* the state after one, so the second call hands no payload to the destructor
\* and defers no second release; and a destroy() right after a destroy() that
\* has just run changes nothing either.
C6_DestroyIdempotent ==
    LET once == destroy(World, R)
        twice == destroy(once, R)
    IN  /\ twice = once
        /\ \A p \in Payloads : twice.released[p] = once.released[p]
        /\ twice.micro = once.micro
        /\ \A id \in OpIds : twice.ops[id].rx = once.ops[id].rx
        /\ last.op = "destroy" => destroy(World, R) = World

C6_Witness ==
    /\ last.op = "destroy"
    /\ recs[R].destroyed
    /\ Conversions(R) # {}
    /\ PendingRelease(R)

\* C7: as long as every call was legal, revive() on a destroyed record whose
\* release is done passes its assertion and gives an empty record (not
\* loaded, no payload, no type, no owners, no shadow copies); revive() on a
\* loaded record, or on one whose deferred release is still waiting, fails
\* its assertion.
C7_Revive ==
    LET w == revive(World, R)
        rec == w.recs[R]
    IN  Legal =>
        /\ (recs[R].destroyed /\ ~recs[R].loaded /\ ~PendingRelease(R)) =>
              /\ ~w.violated
              /\ ~rec.loaded /\ rec.data = Absent /\ rec.type = NoType
              /\ rec.tiles = <<>> /\ ~rec.tilesNull /\ ~rec.destroyed
              /\ \A d \in DrawerIds : rec.internal[d] = NoShadow
        /\ (recs[R].loaded \/ PendingRelease(R)) => w.violated

\* C8: getDataForRendering answers within the call; a payload it returns is
\* the data of the loaded record, or of the drawer's loaded shadow copy, and
\* the type of that record is one the drawer supports; otherwise the answer
\* is absent.
C8_RenderingRead ==
    \A d \in DrawerIds :
        LET w == getDataForRendering(World, R, d, TRUE)
            rec == recs[R]
            sh == rec.internal[d]
        IN  w.ret # Absent =>
                \/ /\ rec.loaded /\ rec.type \in DrawerFormats(d)
                   /\ w.ret = rec.data
                \/ /\ sh.exists /\ sh.loaded /\ sh.type \in DrawerFormats(d)
                   /\ w.ret = sh.data

C8_Witness ==
    /\ last.op = "getDataForRendering"
    /\ last.ret # Absent
    /\ last.ret # recs[R].data
    /\ \E d \in DrawerIds : recs[R].internal[d].loaded /\ recs[R].internal[d].data = last.ret

\* a drawer without a private cache asks for the data of a loaded, live record
\* of a type it does not support, and a conversion to a supported type exists
NeedsConversion(d) ==
    /\ ~DrawerPrivate(d)
    /\ recs[R].loaded /\ ~recs[R].destroyed
    /\ recs[R].type \notin DrawerFormats(d)
    /\ ~recs[R].internal[d].exists
    /\ getConversionPath(recs[R].type, DrawerFormats(d)) # NoPath

\* C9: as long as every call is legal: asked by such a drawer, getDataForRendering returns absent and starts a
\* conversion to a supported type; when the conversion it started has settled
\* on the live record, getDataForRendering returns the record's payload, and
\* that payload has a supported format.
C9_ConvertThenRender ==
    \A d \in DrawerIds :
        LET w == getDataForRendering(World, R, d, TRUE)
        IN  Legal =>
            /\ (NeedsConversion(d) /\ ~w.overflow) =>
                  /\ w.ret = Absent
                  /\ \E id \in OpIds :
                        /\ ops[id].kind = "free" /\ w.ops[id].kind = "chain"
                        /\ w.ops[id].path[Len(w.ops[id].path)] \in DrawerFormats(d)
            /\ (last.op = "convertStep" /\ last.doneFor = d /\ ~recs[R].destroyed) =>
                  /\ w.ret # Absent
                  /\ w.ret = recs[R].data
                  /\ dtype[w.ret] \in DrawerFormats(d)

\* C3: on a record that is never destroyed, with every load and conversion
\* step settling, a job placed on the conversion queue is eventually taken
\* off it and run: a queue that holds a job is eventually empty.
C3_JobsComplete == (recs[R].queue # <<>>) ~> (recs[R].queue = <<>>)

\* the log of the scenario: on the loaded record of type A, transformTo(B),
\* then transformTo(C) while the first conversion has not settled
TwoRequests ==
    /\ calls = 3
    /\ issued = << [to |-> {"B"}, type |-> "A", loaded |-> TRUE],
                   [to |-> {"C"}, type |-> "B", loaded |-> FALSE] >>

\* C10: once everything has settled after that scenario, the record is loaded
\* with type C, no job is left, and the payloads made are those of one
\* conversion A to B and one conversion B to C: the A and the B payload
\* released once, the C payload held by the record.
C10_EndsAtLast ==
    (TwoRequests /\ Quiescent) =>
        /\ recs[R].loaded /\ recs[R].type = "C" /\ recs[R].queue = <<>>
        /\ recs[R].data # Absent
        /\ \E a, b \in Payloads :
              /\ dtype[a] = "A" /\ released[a] = 1
              /\ dtype[b] = "B" /\ released[b] = 1
              /\ dtype[recs[R].data] = "C" /\ released[recs[R].data] = 0
              /\ \A p \in Payloads \ {a, b, recs[R].data} : dtype[p] = NoType

C10_Witness ==
    /\ TwoRequests /\ Quiescent
    /\ recs[R].loaded /\ recs[R].type = "C"
    /\ dtype[recs[R].data] = "C"

\* C1: as long as every call is legal, no cache key is in the active map
\* (_cachesLoaded) and in the zombie map (_zombiesLoaded) at once.
C1_DisjointMaps ==
    Legal => \A k \in Keys : ~(tc.cachesLoaded[k] # NoRec /\ GetSeq(tc.zombiesLoaded, k) # NoRec)

\* a settle of record r is pending: a load handed to addTile or a conversion
SettlePending(r) ==
    \E id \in OpIds : ops[id].r = r /\ ops[id].kind \in {"load", "ovload", "chain"}

\* an earlier transformTo of record r waits in the conversion queue
QueuedTransform(r) ==
    \E n \in 1..Len(recs[r].queue) : recs[r].queue[n].k = "transform"

\* C11: as long as every call is legal: while a settle of the record is
\* pending and an earlier transformTo waits in the queue, a transformTo
\* issued now starts no conversion itself (it is not applied before the
\* earlier one): it is put at the end of the queue.
C11_IssuanceOrder ==
    (Legal /\ ~recs[R].destroyed /\ SettlePending(R) /\ QueuedTransform(R)) =>
        \A to \in Targets :
            LET w == transformTo(World, R, to, TRUE)
            IN  ~w.overflow =>
                    /\ w.ops = ops
                    /\ w.recs[R].type = recs[R].type

\* the zombie record kept under key k, NoRec when there is none
ZombieAt(k) == GetSeq(tc.zombiesLoaded, k)

\* key k is held by a zombie that is not destroyed, and by no active record
ReadyZombie(k) ==
    /\ ZombieAt(k) # NoRec
    /\ ~recs[ZombieAt(k)].destroyed
    /\ tc.cachesLoaded[k] = NoRec

CacheModes == {"none", "sync", "promise"}

\* C12: as long as every call is legal, cacheTile on a key held by a zombie
\* that is not destroyed returns that record with its payload and type as they
\* were (the payload of the caller is not taken), with the requesting tile
\* among its owners, the key in the active map and no longer in the zombie map.
C12_ZombieRevived ==
    Legal =>
        \A k \in Keys : ReadyZombie(k) =>
            \A t \in TileIds, mode \in CacheModes, cutoff \in {0, 1} :
                LET z == ZombieAt(k)
                    data == NewPayload(World)
                    w == cacheTile(World, t, k, mode, data, "A", cutoff)
                IN  ~w.overflow =>
                        /\ w.ret = z
                        /\ w.recs[z].data = recs[z].data
                        /\ w.recs[z].type = recs[z].type
                        /\ data # Absent => w.dtype[data] = dtype[data]
                        /\ InTiles(w.recs[z], t)
                        /\ w.tc.cachesLoaded[k] = z
                        /\ GetSeq(w.tc.zombiesLoaded, k) = NoRec

\* newKey is occupied in the map that holds the record of oldKey
TargetOccupied(oldKey, newKey) ==
    IF tc.cachesLoaded[oldKey] # NoRec
    THEN tc.cachesLoaded[newKey] # NoRec
    ELSE ZombieAt(oldKey) # NoRec /\ ZombieAt(newKey) # NoRec

\* C13: renameCache to a key that is occupied in the map where the record of
\* the old key lives returns null and changes nothing: the maps, the counters,
\* the records and their owners, the tiles (no owner is notified) and the
\* payloads stay as they were, and no promise or callback is created.
C13_RenameOccupied ==
    \A oldKey \in Keys, newKey \in Keys :
        TargetOccupied(oldKey, newKey) =>
            LET w == renameCache(World, oldKey, newKey)
            IN  /\ ~w.flag /\ w.ret = NoRec /\ ~w.threw
                /\ w.tc = tc
                /\ w.recs = recs
                /\ w.tileObjs = tileObjs
                /\ w.ops = ops /\ w.micro = micro /\ w.timers = timers
                /\ w.released = released /\ w.dtype = dtype
                /\ w.violated = violated

\* both keys hold active records with owners, a further call can be made, and
\* renameCache from one to the other returns null
C13_Witness ==
    /\ calls < MaxCacheCalls
    /\ \A k \in Keys : tc.cachesLoaded[k] # NoRec /\ recs[tc.cachesLoaded[k]].tiles # <<>>
    /\ tc.cachesLoaded["k1"] # tc.cachesLoaded["k2"]
    /\ TargetOccupied("k1", "k2")
    /\ ~renameCache(World, "k1", "k2").flag

\* the copy of a cloneCache call is ready and its callback is about to run
CloneReady(id) == ops[id].kind = "clone" /\ ops[id].i > 0

\* C14: as long as every call is legal, a cloneCache whose new key holds a
\* record by the time its copy is delivered (the record was created while the
\* read was pending) changes nothing in the manager: the record stays mapped
\* under the key with its owners and its data, and the maps and counters are
\* as they were.
C14_CloneKeepsTarget ==
    Legal =>
        \A id \in OpIds :
            (CloneReady(id) /\ tc.cachesLoaded[ops[id].key] # NoRec) =>
                LET w == cloneSettled(World, id)
                    held == tc.cachesLoaded[ops[id].key]
                IN  ~w.overflow =>
                        /\ w.tc.cachesLoaded = tc.cachesLoaded
                        /\ w.tc.cachesLoadedCount = tc.cachesLoadedCount
                        /\ w.tc.zombiesLoaded = tc.zombiesLoaded
                        /\ w.tc.zombiesLoadedCount = tc.zombiesLoadedCount
                        /\ w.recs[held] = recs[held]

\* the tiles that own record r
Owners(r) == {recs[r].tiles[n] : n \in 1..Len(recs[r].tiles)}

\* two active, loaded records under different keys, each with owners, no tile owning
\* both, and tile t owning one of them
ConsumerAndVictim(t, victimKey, consumerKey) ==
    LET victim == tc.cachesLoaded[victimKey]
        consumer == tc.cachesLoaded[consumerKey]
    IN  /\ victimKey # consumerKey
        /\ victim # NoRec /\ consumer # NoRec /\ victim # consumer
        /\ recs[victim].loaded /\ recs[consumer].loaded
        /\ ~recs[victim].destroyed /\ ~recs[consumer].destroyed
        /\ Owners(victim) # {} /\ Owners(consumer) # {}
        /\ Owners(victim) \cap Owners(consumer) = {}
        /\ t \in Owners(victim) \cup Owners(consumer)

\* C15: as long as every call is legal, consumeCache on a consumer key and a
\* victim key whose records have owners (no tile owns both) leaves the consumer
\* key mapped to the former victim record, every tile that owned the consumer
\* or the victim among the owners of that record, and the victim key in
\* neither map.
C15_ConsumeKeepsOwners ==
    Legal =>
        \A t \in TileIds, victimKey \in Keys, consumerKey \in Keys :
            ConsumerAndVictim(t, victimKey, consumerKey) =>
                LET victim == tc.cachesLoaded[victimKey]
                    consumer == tc.cachesLoaded[consumerKey]
                    w == consumeCache(World, t, victimKey, consumerKey, TRUE)
                IN  (~w.overflow /\ ~w.threw) =>
                        /\ w.tc.cachesLoaded[consumerKey] = victim
                        /\ w.tc.cachesLoaded[victimKey] = NoRec
                        /\ GetSeq(w.tc.zombiesLoaded, victimKey) = NoRec
                        /\ \A o \in Owners(victim) \cup Owners(consumer) :
                               InTiles(w.recs[victim], o)

\* ------------------------------------------------- insertion and eviction
\* A payload that went to the destructor and that no record holds any more is
\* garbage: its identity is given to the next object the caller creates. The
\* collection runs at the start of a call.
Garbage(w, p) ==
    /\ w.released[p] > 0
    /\ \A r \in RecIds : w.recs[r].data # p /\ w.recs[r].promise # Res(p)
    /\ \A id \in OpIds : w.ops[id].x # p

Collect(w) ==
    [w EXCEPT !.dtype = [p \in Payloads |-> IF Garbage(w, p) THEN NoType ELSE @[p]],
              !.released = [p \in Payloads |-> IF Garbage(w, p) THEN 0 ELSE @[p]],
              !.net = 0]

\* the longest _tilesLoaded the insertions below may leave
MaxListed == 3

\* a tile receives its data as a value and caches it under a key
Insert ==
    \E t \in TileIds, k \in Keys, cutoff \in {0, 1} :
        /\ Step([Tile_addCache(Collect(World), t, k, "sync", NewPayload(Collect(World)),
                               "A", cutoff, FALSE)
                    EXCEPT !.tileObjs[t].loaded = TRUE],
                "cacheTile")
        /\ Len(tc'.tilesLoaded) <= MaxListed

\* a tile gives up one of its caches; the record is destroyed or kept as a zombie
Release ==
    \E t \in TileIds, k \in Keys, destroyIt \in BOOLEAN :
        Step(Tile_removeCache(Collect(World), t, k, destroyIt), "unloadCacheForTile")

NextEvict ==
    \/ Insert
    \/ Release

\* tiles are cached and released, any number of times
SpecEvict == Init /\ [][NextEvict]_vars

\* the viewer starts or stops drawing, loading or processing a tile
Touch ==
    \E t \in TileIds, b \in BusyKinds :
        /\ tileObjs[t].busy # b
        /\ CacheCall([World EXCEPT !.tileObjs[t].busy = b], "touch")

\* the greatest lastTouchTime
MaxTime == 1

\* the viewer draws a tile and stamps it with the time of the frame
Age ==
    \E t \in TileIds, time \in 0..MaxTime :
        /\ tileObjs[t].time # time
        /\ CacheCall([World EXCEPT !.tileObjs[t].time = time], "age")

NextBusy ==
    \/ CacheTile
    \/ UnloadCacheForTile
    \/ Touch
    \/ Age

\* tiles are cached and released while the viewer draws, loads and processes
SpecBusy == Init /\ [][NextBusy]_vars

\* the cache is full with the one record under key k, which tile a alone owns
\* and which is all that a holds; there is no zombie, a is the only listed
\* tile, and a is not busy
FullWith(a, k) ==
    /\ tc.cachesLoadedCount = maxImageCacheCount
    /\ tc.zombiesLoadedCount = 0 /\ tc.zombiesLoaded = <<>>
    /\ tc.cachesLoaded[k] # NoRec
    /\ \A k2 \in Keys \ {k} : tc.cachesLoaded[k2] = NoRec
    /\ recs[tc.cachesLoaded[k]].tiles = <<a>>
    /\ tileObjs[a].caches = <<[key |-> k, rec |-> tc.cachesLoaded[k]]>>
    /\ tileObjs[a].loaded /\ ~TileBusy(tileObjs[a])
    /\ tc.tilesLoaded = <<a>>

\* C16: with the cache full with one record K1 of tile T1 (maxImageCacheCount
\* = 1), no zombie, T1 not busy and above the cutoff, cacheTile of another
\* tile T2 under another key K2 unloads all that T1 holds: K1 is in neither
\* map, its record is destroyed, T1 is unloaded and no longer listed, and K2 is
\* the only active record.
C16_EvictsOldest ==
    \A a \in TileIds, k \in Keys : FullWith(a, k) =>
        \A b \in TileIds \ {a}, k2 \in Keys \ {k}, cutoff \in {0, 1} :
            LET old == tc.cachesLoaded[k]
                w == Tile_addCache(World, b, k2, "sync", NewPayload(World), "A", cutoff, FALSE)
            IN  (~w.overflow /\ TileLevel(a) > cutoff /\ tileObjs[b].caches = <<>>) =>
                    /\ w.tc.cachesLoaded[k] = NoRec
                    /\ GetSeq(w.tc.zombiesLoaded, k) = NoRec
                    /\ w.recs[old].destroyed
                    /\ recs[old].loaded =>
                           (w.recs[old].data = Absent /\ w.released[recs[old].data] = 1)
                    /\ w.tileObjs[a].caches = <<>> /\ ~w.tileObjs[a].loaded
                    /\ w.tc.cachesLoaded[k2] # NoRec
                    /\ w.recs[w.tc.cachesLoaded[k2]].tiles = <<b>>
                    /\ w.tc.cachesLoadedCount = 1 /\ w.tc.zombiesLoadedCount = 0
                    /\ w.tc.tilesLoaded = <<b>>

\* the cache is full with K1 of T1, and the cacheTile of T2 under K2 evicts it
C16_Witness ==
    /\ maxImageCacheCount = 1
    /\ FullWith("t1", "k1")
    /\ tileObjs["t2"].caches = <<>>
    /\ LET w == Tile_addCache(World, "t2", "k2", "sync", NewPayload(World), "A", 0, FALSE)
       IN  /\ ~w.overflow
           /\ w.tc.cachesLoaded = [x \in Keys |-> IF x = "k2" THEN w.ret ELSE NoRec]
           /\ w.recs[tc.cachesLoaded["k1"]].destroyed

\* the eviction with this cutoff skips tile t: it is at or below the cutoff,
\* being drawn, loading or processing
Protected(t, cutoff) == TileLevel(t) <= cutoff \/ TileBusy(tileObjs[t])

\* the tiles listed in _tilesLoaded
Listed == {tc.tilesLoaded[n] : n \in 1..Len(tc.tilesLoaded)}

\* C17: as long as every call is legal, a cacheTile call never unloads a tile
\* that its eviction must skip (at or below the cutoff, being drawn, loading
\* or processing): the tile keeps its caches and its loaded flag and stays an
\* owner of every record in use that it owned.
\* And when the count is above the maximum, there is no zombie and every
\* listed tile is to be skipped, _freeOldRecordRoutine raises nothing and
\* leaves the maps, the counters and the records as they are.
C17_ProtectedStay ==
    Legal => \A t \in TileIds, cutoff \in {0, 1} :
        /\ \A k \in Keys, mode \in CacheModes :
               LET w == cacheTile(World, t, k, mode, NewPayload(World), "A", cutoff)
               IN  ~w.overflow =>
                       \A p \in TileIds : Protected(p, cutoff) =>
                           /\ w.tileObjs[p] = tileObjs[p]
                           /\ \A r \in Referenced(World) \ {NoRec} :
                                  InTiles(recs[r], p) =>
                                      InTiles(w.recs[r], p) /\ ~w.recs[r].destroyed
        /\ ( /\ tc.cachesLoadedCount + tc.zombiesLoadedCount > maxImageCacheCount
             /\ tc.zombiesLoadedCount = 0
             /\ \A p \in Listed : Protected(p, cutoff) ) =>
               LET w == _freeOldRecordRoutine(World, t, cutoff)
               IN  /\ ~w.threw /\ ~w.overflow /\ w.violated = violated
                   /\ w.tc.cachesLoaded = tc.cachesLoaded
                   /\ w.tc.zombiesLoaded = tc.zombiesLoaded
                   /\ w.tc.cachesLoadedCount = tc.cachesLoadedCount
                   /\ w.tc.zombiesLoadedCount = tc.zombiesLoadedCount
                   /\ w.recs = recs /\ w.released = released
                   /\ \A p \in TileIds : w.tileObjs[p] = tileObjs[p]

\* the count is above the maximum with no zombie, two tiles are listed, one
\* at the cutoff and one busy, and a further cacheTile is possible
C17_Witness ==
    /\ calls < MaxCacheCalls
    /\ tc.cachesLoadedCount + tc.zombiesLoadedCount > maxImageCacheCount
    /\ tc.zombiesLoadedCount = 0
    /\ Listed = TileIds
    /\ \A p \in TileIds : tileObjs[p].caches # <<>> /\ Protected(p, 1)
    /\ \E p \in TileIds : TileBusy(tileObjs[p]) /\ TileLevel(p) > 1
    /\ ~cacheTile(World, "t2", "k1", "sync", NewPayload(World), "A", 1).overflow

\* more records (active and zombie) than maxImageCacheCount
Over(w) == w.tc.cachesLoadedCount + w.tc.zombiesLoadedCount > maxImageCacheCount

\* something an eviction with this cutoff can free: a zombie, or a listed tile
\* that owns an active record and that the scan does not skip
Evictable(w, cutoff) ==
    \/ w.tc.zombiesLoadedCount > 0
    \/ \E n \in 1..Len(w.tc.tilesLoaded) :
          /\ TileLevel(w.tc.tilesLoaded[n]) > cutoff
          /\ ~TileBusy(w.tileObjs[w.tc.tilesLoaded[n]])
          /\ \E k \in Keys :
                /\ w.tc.cachesLoaded[k] # NoRec
                /\ InTiles(w.recs[w.tc.cachesLoaded[k]], w.tc.tilesLoaded[n])

\* the world after a tile has received fresh data and cached it under a key
Inserted(w, t, k, cutoff) ==
    [Tile_addCache(Collect(w), t, k, "sync", NewPayload(Collect(w)), "A", cutoff, FALSE)
        EXCEPT !.tileObjs[t].loaded = TRUE]

\* what a later call can depend on
Stored(w) ==
    <<w.recs, w.ops, w.micro, w.timers, w.released, w.dtype, w.tc, w.tileObjs, w.issued>>

\* two insertions, each made over the maximum with something to evict, after
\* which the cache is over the maximum and exactly as it was before them
Returns(w, w1, w2, c1, c2) ==
    /\ Over(w) /\ Evictable(w, c1) /\ ~w1.overflow
    /\ Over(w1) /\ Evictable(w1, c2) /\ ~w2.overflow
    /\ Over(w2)
    /\ Stored(Collect(w2)) = Stored(Collect(w))

\* C18: whenever there are more records than maxImageCacheCount, the cacheTile
\* calls that follow, each made while a zombie or an evictable owner exists,
\* eventually bring the number of records back to the maximum or below: no two
\* such calls lead back to the cache they started from with the count still
\* above the maximum, which repeating them would keep there forever.
C18_Recovers ==
    Legal =>
        \A t \in TileIds, k \in Keys, c1 \in {0, 1}, u \in TileIds, j \in Keys, c2 \in {0, 1} :
            ~Returns(World, Inserted(World, t, k, c1),
                     Inserted(Inserted(World, t, k, c1), u, j, c2), c1, c2)

\* ------------------------------------------ destroy() during a settle
\* the load or the conversion whose promise record r holds and waits for
InFlight(w, r, id) ==
    /\ w.ops[id].kind \in {"load", "chain"}
    /\ w.ops[id].r = r
    /\ w.recs[r].promise = Pend(id)
    /\ ~w.recs[r].loaded

\* operation id is still running and the release of record r waits for it
Deferred(w, r, id) ==
    /\ w.ops[id].kind \in {"load", "chain"}
    /\ w.ops[id].r = r
    /\ \E n \in 1..Len(w.ops[id].rx) :
          w.ops[id].rx[n].k = "destroySelf" /\ w.ops[id].rx[n].r = r

\* the load delivers its payload, or the conversion the result of a step
SettleStep(w, id) ==
    IF w.ops[id].kind = "load" THEN LoadSettled(w, id) ELSE convertNext(w, id, TRUE)

\* the operation has settled with a payload the record now holds, and the
\* release of the record is due with that payload
SettledInto(w, r, id) ==
    /\ w.ops[id].kind = "free"
    /\ w.recs[r].loaded
    /\ w.recs[r].data \in Payloads
    /\ \E n \in 1..Len(w.micro) :
          /\ w.micro[n].k = "destroySelf" /\ w.micro[n].r = r
          /\ w.micro[n].v = w.recs[r].data

\* record r is destroyed and empty, and payload v went to the destructor
Discarded(w, r, v) ==
    /\ w.recs[r].destroyed
    /\ ~w.recs[r].loaded
    /\ w.recs[r].data = Absent
    /\ w.released[v] > 0

OverwrittenInFlight(w, r, id) ==
    /\ w.ops[id].kind = "sconv" /\ w.ops[id].r = r /\ ~w.ops[id].detached
    /\ w.recs[r].loaded
    /\ w.recs[r].internal[w.ops[id].drawer].loaded
    /\ w.recs[r].internal[w.ops[id].drawer].data = w.recs[r].data

\* a drawer asks for a copy of its own in one of the formats
PrepareCopy ==
    \E d \in DrawerIds, to \in Targets :
        Call(prepareForRendering(World, R, d, to, TRUE, TRUE), "prepareForRendering")

NextShadow ==
    \/ AddTile
    \/ SetDataAs
    \/ PrepareCopy
    \/ LoadSettles
    \/ ShadowStep
    \/ Microtask

\* a record, its overwrites and the copies drawers keep of it
SpecShadow == Init /\ [][NextShadow]_vars


\* C20: once an overwrite has been applied to the record and to its shadow
\* copies, a conversion into a shadow copy that was in flight at that time and
\* settles afterwards leaves the shadow copy with the overwritten payload: the
\* result it delivers was derived from the payload that was replaced.
C20_ShadowsFollowOverwrite ==
    Legal =>
        \A id \in OpIds :
            OverwrittenInFlight(World, R, id) =>
                \/ shadowNext(World, id).overflow
                \/ shadowNext(World, id).recs[R].internal[ops[id].drawer].data = recs[R].data

\* ---------------------------------------------- addTile on a record with data
\* record r holds the payload and the type handed in, and the payload it held
\* before went to the destructor
Overwritten(w, r, data, type, old) ==
    /\ w.recs[r].data = data
    /\ w.recs[r].type = type
    /\ w.released[old] > 0

\* the call left the payload and the type of record r alone and released nothing
DataIgnored(w, r) ==
    /\ w.recs[r].data = recs[r].data
    /\ w.recs[r].type = recs[r].type
    /\ w.released = released

\* the record has data (this.type && this._promise, and loaded) and is not
\* destroyed, and a new payload can be handed to it
HasData ==
    /\ recs[R].loaded /\ ~recs[R].destroyed
    /\ recs[R].type # NoType /\ recs[R].promise # NullP
    /\ NewPayload(World) # Absent

\* C21: addTile with a value on a loaded record lands as an overwrite, whether
\* or not the record has owners: the record holds the supplied payload and
\* type afterwards and its previous payload has been released.
C21_AttachOverwrites ==
    (Legal /\ HasData) =>
        \A tile \in TileIds, type \in InputTypes :
            Overwritten(addTile(World, R, tile, "sync", NewPayload(World), type),
                        R, NewPayload(World), type, recs[R].data)

\* C21 as the code has it: the supplied value is an overwrite only when the
\* record has no owner left; while it has one the value is ignored, and the
\* payload, the type and the released payloads stay as they were.
C21_AttachOverwritesUnowned ==
    (Legal /\ HasData) =>
        \A tile \in TileIds, type \in InputTypes :
            IF recs[R].tiles = <<>>
            THEN Overwritten(addTile(World, R, tile, "sync", NewPayload(World), type),
                             R, NewPayload(World), type, recs[R].data)
            ELSE DataIgnored(addTile(World, R, tile, "sync", NewPayload(World), type), R)

\* a loaded record whose last owner has left, with its payload not released
C21_Witness ==
    /\ Legal /\ HasData
    /\ recs[R].tiles = <<>> /\ ~recs[R].tilesNull
    /\ released[recs[R].data] = 0
    /\ calls < MaxCalls

\* C22: prepareForRendering with keepInternalCopy = true on a loaded record
\* whose type cannot be converted to any format of the drawer leaves the
\* record as it was: payload, type and loaded flag are unchanged and no shadow
\* copy is registered for the drawer.
C22_NoPathNoChange ==
    Legal =>
        \A d \in DrawerIds, to \in Targets :
            (/\ recs[R].loaded /\ ~recs[R].destroyed
             /\ recs[R].type \notin to
             /\ getConversionPath(recs[R].type, to) = NoPath) =>
                prepareForRendering(World, R, d, to, TRUE, TRUE).recs[R] = recs[R]

\* ------------------------------------------------ the reference tile
\* withTileReference(ref)
withTileReference(w, r, ref) == [w EXCEPT !.recs[r].tRef = ref]

\* the tile code names one of the owners as the reference tile
WithTileReference ==
    \E ref \in TileIds :
        /\ InTiles(recs[R], ref)
        /\ recs[R].tRef # ref
        /\ Step(withTileReference(World, R, ref), "withTileReference")

\* a record, its owners and its reference tile
SpecOwners == Init /\ [][AddTile \/ RemoveTile \/ WithTileReference \/ LoadSettles]_vars

\* C23: removeTile of the owner that is the reference tile, on a record with
\* several owners, leaves _tRef at the last element of the remaining owner
\* list, whatever position the removed owner had.
C23_RefFallsBackToLast ==
    Legal =>
        \A tile \in TileIds :
            (/\ ~recs[R].destroyed
             /\ Len(recs[R].tiles) >= 2
             /\ InTiles(recs[R], tile)
             /\ recs[R].tRef = tile) =>
                removeTile(World, R, tile).recs[R].tRef
                    = removeTile(World, R, tile).recs[R].tiles[Len(recs[R].tiles) - 1]

\* ------------------------------------------------ unloadCacheForTile
\* tile t is an owner of the record that is active under key k
OwnerAt(t, k) ==
    /\ tc.cachesLoaded[k] # NoRec
    /\ ~recs[tc.cachesLoaded[k]].destroyed
    /\ InTiles(recs[tc.cachesLoaded[k]], t)

\* world w, after the last owner of record r has left key k: the key is no
\* longer active; the record is destroyed and no zombie, or it is the zombie
\* of the key with the data it had
LastOwnerGone(w, r, k, destroyIt) ==
    /\ w.flag
    /\ w.tc.cachesLoaded[k] = NoRec
    /\ w.tc.cachesLoadedCount = tc.cachesLoadedCount - 1
    /\ IF destroyIt
       THEN /\ w.recs[r].destroyed
            /\ w.tc.zombiesLoaded = tc.zombiesLoaded
            /\ w.tc.zombiesLoadedCount = tc.zombiesLoadedCount
       ELSE /\ ~w.recs[r].destroyed
            /\ GetSeq(w.tc.zombiesLoaded, k) = r
            /\ w.tc.zombiesLoadedCount = tc.zombiesLoadedCount + 1
            /\ w.recs[r].data = recs[r].data
            /\ w.recs[r].type = recs[r].type
            /\ w.recs[r].loaded = recs[r].loaded
            /\ w.released = released

\* world w, after one of several owners of record r has left key k
OthersRemain(w, r, k) ==
    /\ w.flag
    /\ w.tc = tc
    /\ ~w.recs[r].destroyed
    /\ w.recs[r].data = recs[r].data
    /\ w.released = released

\* C24: unloadCacheForTile(tile, key, destroy) with tile an owner of the
\* active record at key: when the last owner leaves, the key leaves the active
\* map and the record is destroyed if destroy is set, else it becomes the
\* zombie of the key with its data kept; when other owners remain the record
\* stays active under the key; when tile is no owner, or the key has no active
\* record, the call returns false and changes nothing.
C24_UnloadCacheForTile ==
    Legal =>
        \A t \in TileIds, k \in Keys, destroyIt \in BOOLEAN :
            IF OwnerAt(t, k)
            THEN IF Len(recs[tc.cachesLoaded[k]].tiles) = 1
                 THEN LastOwnerGone(unloadCacheForTile(World, t, k, destroyIt, FALSE),
                                    tc.cachesLoaded[k], k, destroyIt)
                 ELSE OthersRemain(unloadCacheForTile(World, t, k, destroyIt, FALSE),
                                   tc.cachesLoaded[k], k)
            ELSE /\ ~unloadCacheForTile(World, t, k, destroyIt, FALSE).flag
                 /\ Stored(unloadCacheForTile(World, t, k, destroyIt, FALSE)) = Stored(World)

\* a loaded record with one owner is active under a key, another record is
\* active with two owners, and a further call is possible
C24_Witness ==
    /\ Legal /\ calls < MaxCacheCalls
    /\ \E t \in TileIds, k \in Keys :
          /\ OwnerAt(t, k)
          /\ Len(recs[tc.cachesLoaded[k]].tiles) = 1
          /\ recs[tc.cachesLoaded[k]].loaded
          /\ released[recs[tc.cachesLoaded[k]].data] = 0
    /\ \E k \in Keys : tc.cachesLoaded[k] # NoRec /\ Len(recs[tc.cachesLoaded[k]].tiles) = 2

\* ------------------------------------------------ the choice of the victim
\* world w has unloaded tile p: the tile object changed, or a record lost it
Unloaded(w, p) ==
    \/ w.tileObjs[p] # tileObjs[p]
    \/ \E r \in RecIds : InTiles(recs[r], p) /\ ~InTiles(w.recs[r], p)

\* among the listed tiles an eviction with this cutoff does not skip, none
\* was touched earlier than v, and none touched at the same time is deeper
Oldest(v, cutoff) ==
    /\ v \in Listed /\ ~Protected(v, cutoff)
    /\ \A p \in Listed :
          ~Protected(p, cutoff) =>
              \/ TileTime(tileObjs[v]) < TileTime(tileObjs[p])
              \/ /\ TileTime(tileObjs[v]) = TileTime(tileObjs[p])
                 /\ TileLevel(v) >= TileLevel(p)

\* C25: a tile that a run of the eviction routine unloads is, among the
\* listed tiles above the cutoff level and not busy, one with the smallest
\* lastTouchTime, and among those one with the greatest level.
C25_OldestThenDeepest ==
    Legal =>
        \A theTile \in TileIds, cutoff \in {0, 1}, p \in TileIds :
            Unloaded(_freeOldRecordRoutine(World, theTile, cutoff), p) => Oldest(p, cutoff)

\* the cache is over its maximum with no zombie, both tiles are listed owners
\* and not busy, the shallower one was touched earlier, and the routine
\* unloads it
C25_Witness ==
    /\ Legal
    /\ tc.cachesLoadedCount + tc.zombiesLoadedCount > maxImageCacheCount
    /\ tc.zombiesLoadedCount = 0
    /\ Listed = TileIds
    /\ \A p \in TileIds : tileObjs[p].caches # <<>> /\ ~Protected(p, 0)
    /\ TileTime(tileObjs["t1"]) < TileTime(tileObjs["t2"])
    /\ Unloaded(_freeOldRecordRoutine(World, "t2", 0), "t1")
    /\ ~Unloaded(_freeOldRecordRoutine(World, "t2", 0), "t2")

\* ------------------------------------------------ one zombie per run
\* the zombies of the current state that world w has destroyed
ZombiesDestroyed(w) ==
    {n \in 1..Len(tc.zombiesLoaded) :
        w.recs[tc.zombiesLoaded[n].rec].destroyed /\ ~recs[tc.zombiesLoaded[n].rec].destroyed}

\* C26: over the maximum with at least one zombie, one run of the eviction
\* routine destroys exactly one zombie, takes it (and no other) out of the
\* zombie map and unloads no tile; with no zombie it unloads at most one tile.
C26_OneZombiePerRun ==
    (Legal /\ tc.cachesLoadedCount + tc.zombiesLoadedCount > maxImageCacheCount) =>
        \A theTile \in TileIds, cutoff \in {0, 1} :
            IF tc.zombiesLoaded # <<>>
            THEN /\ Cardinality(ZombiesDestroyed(_freeOldRecordRoutine(World, theTile, cutoff))) = 1
                 /\ \A n \in 1..Len(tc.zombiesLoaded) :
                       n \in ZombiesDestroyed(_freeOldRecordRoutine(World, theTile, cutoff))
                       <=> GetSeq(_freeOldRecordRoutine(World, theTile, cutoff).tc.zombiesLoaded,
                                  tc.zombiesLoaded[n].key) = NoRec
                 /\ _freeOldRecordRoutine(World, theTile, cutoff).tc.zombiesLoadedCount
                        = tc.zombiesLoadedCount - 1
                 /\ \A p \in TileIds :
                       ~Unloaded(_freeOldRecordRoutine(World, theTile, cutoff), p)
            ELSE Cardinality({p \in TileIds :
                     Unloaded(_freeOldRecordRoutine(World, theTile, cutoff), p)}) <= 1

\* over the maximum with a zombie that is not destroyed and a listed tile
\* that owns a record and that the scan would not skip
C26_Witness ==
    /\ Legal
    /\ tc.cachesLoadedCount + tc.zombiesLoadedCount > maxImageCacheCount
    /\ tc.zombiesLoaded # <<>>
    /\ ~recs[Head(tc.zombiesLoaded).rec].destroyed
    /\ \E p \in Listed : ~Protected(p, 0) /\ tileObjs[p].caches # <<>>

\* C27: after any sequence of manager operations _tilesLoaded holds each tile
\* at most once, and every tile in it holds at least one cache record.
C27_ListedOnceAndOwning ==
    Legal =>
        /\ \A i, j \in 1..Len(tc.tilesLoaded) :
              tc.tilesLoaded[i] = tc.tilesLoaded[j] => i = j
        /\ \A n \in 1..Len(tc.tilesLoaded) :
              Tile_getCacheSize(World, tc.tilesLoaded[n]) > 0

\* ---------------------------------------------------------------------------
\* C28: after any sequence of manager operations every record of the zombie
\* map has no owner and is not destroyed, and every record of the active map
\* has at least one owner.
C28_ZombiesUnownedActiveOwned ==
    Legal =>
        /\ \A n \in 1..Len(tc.zombiesLoaded) :
              /\ getTileCount(recs[tc.zombiesLoaded[n].rec]) = 0
              /\ ~recs[tc.zombiesLoaded[n].rec].destroyed
        /\ \A k \in Keys :
              tc.cachesLoaded[k] # NoRec => getTileCount(recs[tc.cachesLoaded[k]]) > 0

\* ---------------------------------------------------------------------------
\* the shadow copy of drawer d holds the payload the record itself holds
SharesBuffer(rec, d) ==
    /\ rec.internal[d].exists
    /\ rec.data # Absent
    /\ rec.internal[d].data = rec.data

\* C29: no sequence of prepareForRendering, overwrite and shadow conversion
\* makes a shadow copy hold the payload its base record holds at the same time.
C29_NoSharedBuffer ==
    Legal => \A r \in RecIds, d \in DrawerIds : ~SharesBuffer(recs[r], d)

\* ---------------------------------------------------------------------------
\* transformTo on a loaded record whose first transform returns undefined:
\* the closure convert(originalData, 0) throws inside _convert
TransformFails ==
    \E to \in Targets :
        /\ recs[R].loaded /\ ~recs[R].destroyed
        /\ getConversionPath(recs[R].type, to) # NoPath
        /\ Call(transformTo(World, R, to, FALSE), "transformFails")

\* a later transform of a running conversion returns undefined: the closure
\* throws inside the then() callback of the previous step
ConvertFails ==
    \E id \in OpIds :
        /\ ops[id].kind = "chain"
        /\ ops[id].i + 1 < Len(ops[id].path) - 1
        /\ Step(convertNext(World, id, FALSE), "convertFails")

\* a record whose conversions may fail at any step
SpecFail ==
    Init /\ [][AddTile \/ TransformTo \/ TransformFails \/ ConvertStep \/ ConvertFails
                 \/ LoadSettles \/ Timer \/ Microtask]_vars

\* C30: when a conversion step yields undefined the record is left with
\* loaded = false, the failure is raised (the call throws, or the promise of
\* the conversion rejects), no further step of the path is applied (the
\* conversion is over or was never registered) and the failure starts and
\* schedules nothing.
C30_UndefinedStepFails ==
    [][(Legal /\ last'.op \in {"transformFails", "convertFails"}) =>
          /\ ~recs'[R].loaded
          /\ last'.op = "transformFails" => last'.threw
          /\ last'.op = "transformFails" => ops' = ops
          /\ last'.op = "convertFails" =>
                \E id \in OpIds :
                    /\ ops[id].kind = "chain" /\ ops[id].r = R
                    /\ ops' = [ops EXCEPT ![id] = FreeOp]
                    /\ recs[R].promise = Pend(id) => recs'[R].promise = Rej
          /\ timers' = timers
          /\ micro' = micro]_vars

C30_Witness ==
    /\ last.op = "convertFails"
    /\ ~recs[R].loaded /\ ~recs[R].destroyed
    /\ recs[R].promise = Rej

\* ---------------------------------------------------------------------------
\* getDataAs(type, true) called on the record itself: the promise it returns
\* is the operation id; on a record without a promise this._promise.then throws
getDataAs(w, r, type) ==
    LET rec == w.recs[r]
        id == NewOp(w)
        w1 == [w EXCEPT !.ops[id] = [FreeOp EXCEPT !.kind = "read", !.r = r, !.ty = type]]
    IN  IF ~rec.loaded /\ rec.promise = NullP THEN [w EXCEPT !.threw = TRUE]
        ELSE IF id = 0 THEN Overflow(w)
        ELSE IF rec.loaded THEN cloneStart(w1, id, TRUE)
        ELSE Then(w1, r, Item("clone", r, id, NoType, {}, FALSE))

\* the promise returned by getDataAs settles; ret is the value the caller
\* receives: the copy, or nothing when _transformDataIfNeeded found the record
\* destroyed (before the copy: nothing is made; after it: the copy is released)
getDataAsSettled(w, id) ==
    LET op == w.ops[id]
        made == op.i # 3 /\ op.path # <<>>
        x == IF made THEN NewPayload(w) ELSE Absent
        w0 == IF made THEN [w EXCEPT !.dtype[x] = op.path[1]] ELSE w
        dropped == op.i = 1 /\ w.recs[op.r].destroyed
        w1 == IF dropped THEN convertorDestroy(w0, x) ELSE w0
    IN  IF made /\ x = Absent THEN Overflow(w)
        ELSE [w1 EXCEPT !.ops[id] = FreeOp, !.ret = IF dropped THEN Absent ELSE x]

GetDataAs ==
    \E type \in {NoType, "A", "B"} : Call(getDataAs(World, R, type), "getDataAs")

ReadSettles ==
    \E id \in OpIds :
        /\ ops[id].kind = "read" /\ ops[id].i > 0
        /\ Step(getDataAsSettled(World, id), "readSettles")

\* a record that is read with getDataAs while it is loaded and destroyed
SpecRead ==
    Init /\ [][AddTile \/ Destroy \/ GetDataAs \/ ReadSettles \/ LoadSettles \/ Microtask]_vars

\* the read delivers nothing, and a copy made for it went to the destructor hook
ReadsEmpty(w0, w) ==
    /\ w.ret = Absent
    /\ \A p \in Payloads : w0.dtype[p] = NoType /\ w.dtype[p] # NoType => w.released[p] = 1

\* C31: getDataAs on a destroyed record does not fail and resolves to an empty
\* result, whether the record was destroyed before the call or while the read
\* was in flight; a copy produced for the caller in flight is released.
C31_DestroyedReadsEmpty ==
    Legal /\ recs[R].destroyed =>
        /\ \A type \in {NoType, "A", "B"} : ~getDataAs(World, R, type).threw
        /\ \A id \in OpIds :
              ops[id].kind = "read" /\ ops[id].i > 0 /\ NewPayload(World) # Absent =>
                  ReadsEmpty(World, getDataAsSettled(World, id))

\* ---------------------------------------------------------------------------
\* the values of tile.originalCacheKey (tile.js is not part of src/)
OriginalKeys == [TileIds -> Keys]

\* the loop of restoreTilesThatShareOriginalCache: for (let t of
\* originalCache._tiles) reads the array as it is when element i is due
RECURSIVE RestoreTiles(_, _, _, _, _)
RestoreTiles(w, originalCache, i, freeIfUnused, orig) ==
    IF i > Len(w.recs[originalCache].tiles) THEN w
    ELSE RestoreTiles(
            [unloadCacheForTile(w, w.recs[originalCache].tiles[i],
                                w.tileObjs[w.recs[originalCache].tiles[i]].cacheKey,
                                freeIfUnused, FALSE)
                EXCEPT !.tileObjs[w.recs[originalCache].tiles[i]] =
                           [@ EXCEPT !.caches = DelSeq(@, w.tileObjs[w.recs[originalCache].tiles[i]].cacheKey),
                                     !.cacheKey = orig[w.recs[originalCache].tiles[i]]]],
            originalCache, i + 1, freeIfUnused, orig)

\* restoreTilesThatShareOriginalCache(tile, originalCache, freeIfUnused)
restoreTilesThatShareOriginalCache(w, tile, originalCache, freeIfUnused, orig) ==
    RestoreTiles(w, originalCache, 1, freeIfUnused, orig)

\* a tile is restored: the record is the one under its originalCacheKey
RestoreTilesThatShareOriginalCache ==
    \E t \in TileIds, freeIfUnused \in BOOLEAN, orig \in OriginalKeys :
        /\ tc.cachesLoaded[orig[t]] # NoRec
        /\ InTiles(recs[tc.cachesLoaded[orig[t]]], t)
        /\ CacheCall(restoreTilesThatShareOriginalCache(World, t, tc.cachesLoaded[orig[t]],
                                                        freeIfUnused, orig),
                     "restoreTiles")

\* tiles cache and release data and are restored to their original cache
SpecRestore ==
    Init /\ [][CacheTile \/ UnloadCacheForTile \/ RestoreTilesThatShareOriginalCache]_vars

\* every owner the record has now is detached in w and has its key reset
AllRestored(w, originalCache, orig) ==
    /\ \A t \in Owners(originalCache) :
          /\ ~InTiles(w.recs[originalCache], t)
          /\ w.tileObjs[t].cacheKey = orig[t]
    /\ getTileCount(w.recs[originalCache]) = 0

\* C32: restoreTilesThatShareOriginalCache detaches every tile that owned
\* originalCache when the call started and resets its cacheKey to its
\* originalCacheKey; the record ends with no owner.
C32_AllOwnersRestored ==
    Legal =>
        \A t \in TileIds, freeIfUnused \in BOOLEAN, orig \in OriginalKeys :
            tc.cachesLoaded[orig[t]] # NoRec /\ InTiles(recs[tc.cachesLoaded[orig[t]]], t) =>
                AllRestored(
                            restoreTilesThatShareOriginalCache(World, t, tc.cachesLoaded[orig[t]],
                                                               freeIfUnused, orig),
                            tc.cachesLoaded[orig[t]], orig)

\* ---------------------------------------------------------------------------
\* numCachesLoaded()
numCachesLoaded(w) == w.tc.zombiesLoadedCount + w.tc.cachesLoadedCount

\* C33: after any sequence of manager operations _cachesLoadedCount is the
\* number of keys of the active map and _zombiesLoadedCount the number of keys
\* of the zombie map, so numCachesLoaded() is the number of records held.
C33_CountersMatchMaps ==
    Legal =>
        /\ tc.cachesLoadedCount = Cardinality({k \in Keys : tc.cachesLoaded[k] # NoRec})
        /\ tc.zombiesLoadedCount = Len(tc.zombiesLoaded)
        /\ numCachesLoaded(World) =
              Cardinality({k \in Keys : tc.cachesLoaded[k] # NoRec}) + Len(tc.zombiesLoaded)

\* ---------------------------------------------------------------------------
\* setDataAs with a payload of the caller's; on a record that was never given
\* data and is not destroyed this._promise.then throws and nothing is taken over
SetNewData ==
    \E type \in InputTypes :
        /\ NewPayload(World) # Absent
        /\ recs[R].loaded \/ recs[R].destroyed \/ recs[R].promise # NullP
        /\ Call(setDataAs(Own(World, NewPayload(World), type), R, NewPayload(World), type),
                "setDataAs")

\* one record under addTile, setDataAs, transformTo and destroy
SpecRelease ==
    Init /\ [][AddTile \/ SetNewData \/ TransformTo \/ Destroy
                 \/ LoadSettles \/ ConvertStep \/ Timer \/ Microtask]_vars

\* C34: under every interleaving of addTile, setDataAs, transformTo and destroy
\* no payload is passed to the destructor hook twice, and once the record is
\* destroyed and nothing is pending every payload it owned has been released.
C34_ReleasedExactlyOnce ==
    Legal =>
        /\ \A p \in Payloads : released[p] <= 1
        /\ recs[R].destroyed /\ Quiescent =>
              \A p \in Payloads : dtype[p] # NoType => released[p] = 1

\* ---------------------------------------------------------------------------
\* the record under key, when it holds data, carries the type tag ty and its
\* payload really has that type
TypeTagged(w, key, ty) ==
    (/\ w.tc.cachesLoaded[key] # NoRec
     /\ w.recs[w.tc.cachesLoaded[key]].data # Absent) =>
        /\ w.recs[w.tc.cachesLoaded[key]].type = ty
        /\ w.dtype[w.recs[w.tc.cachesLoaded[key]].data] = ty

\* C35: the record created by cloneCache is tagged with the type of the payload
\* it was seeded with: with a desiredType other than the source record's type
\* the new record's type is desiredType.
C35_CloneTypeIsDesired ==
    Legal =>
        \A id \in OpIds :
            (/\ ops[id].kind = "clone" /\ ops[id].i > 0
             /\ ops[id].ty # NoType /\ ops[id].ty # recs[ops[id].r].type
             /\ ~cloneSettled(World, id).overflow) =>
                TypeTagged(cloneSettled(World, id), ops[id].key, ops[id].ty)

\* ---------------------------------------------------------------------------
\* tile t, for which w was reached from the present state by a call that ran
\* the eviction, still owns the record the call returned, is not marked
\* unloaded if it was loaded, and is in _tilesLoaded
TriggerKept(w, t) ==
    /\ w.ret # NoRec
    /\ InTiles(w.recs[w.ret], t)
    /\ tileObjs[t].loaded => w.tileObjs[t].loaded
    /\ \E n \in 1..Len(w.tc.tilesLoaded) : w.tc.tilesLoaded[n] = t

\* C36: the eviction run triggered by cacheTile for a tile never unloads that
\* tile: after the call it owns the returned record, has not been marked
\* unloaded and is listed in _tilesLoaded.
C36_TriggerNotEvicted ==
    Legal =>
        \A t \in TileIds, k \in Keys, mode \in CacheModes, cutoff \in {0, 1} :
            (/\ NewPayload(World) # Absent
             /\ ~cacheTile(World, t, k, mode, NewPayload(World), "A", cutoff).overflow
             /\ ~cacheTile(World, t, k, mode, NewPayload(World), "A", cutoff).violated
             /\ ~cacheTile(World, t, k, mode, NewPayload(World), "A", cutoff).threw) =>
                TriggerKept(cacheTile(World, t, k, mode, NewPayload(World), "A", cutoff), t)

\* ---------------------------------------------------------------------------
\* the slots of _tilesLoaded held by tiles other than t, in order
OtherSlots(seq, t) == SelectSeq(seq, LAMBDA x : x # t)

\* w differs from the present state at most by one slot of t in _tilesLoaded
\* as far as the list goes
OnlyOwnSlot(w, t) ==
    /\ OtherSlots(w.tc.tilesLoaded, t) = OtherSlots(tc.tilesLoaded, t)
    /\ Len(w.tc.tilesLoaded) >= Len(tc.tilesLoaded) - 1

\* a tile caches its data while it is still loading: tile.loaded is not set yet
CacheLoading ==
    \E t \in TileIds, k \in Keys, mode \in {"sync", "promise"}, cutoff \in {0, 1} :
        /\ ~tileObjs[t].loaded
        /\ CacheCall(Tile_addCache(World, t, k, mode, NewPayload(World), "A", cutoff, FALSE),
                     "cacheTile")

\* the viewer marks a tile loaded once its main cache is there: the record
\* under its cacheKey is live and owned by the tile
SetLoaded ==
    \E t \in TileIds :
        /\ ~tileObjs[t].loaded
        /\ Tile_getCache(World, t) # NoRec
        /\ ~recs[Tile_getCache(World, t)].destroyed
        /\ InTiles(recs[Tile_getCache(World, t)], t)
        /\ Step([World EXCEPT !.tileObjs[t].loaded = TRUE], "loaded")

\* tiles that are listed before the viewer marks them loaded
SpecLoading ==
    Init /\ [][CacheLoading \/ SetLoaded \/ UnloadTile \/ ClearTilesFor]_vars

\* C37: unloadTile(tile) removes at most the slot of that tile from
\* _tilesLoaded and leaves the slot of every other tile in place, also when the
\* tile is loaded and not listed; on a tile that is not loaded it changes nothing.
C37_UnloadTileOwnSlot ==
    Legal =>
        \A t \in TileIds, destroyIt \in BOOLEAN :
            IF tileObjs[t].loaded
            THEN OnlyOwnSlot(unloadTile(World, t, destroyIt), t)
            ELSE unloadTile(World, t, destroyIt) = World

====
